---- MODULE Spec2Model ----
(***************************************************************************)
(* Model of the generation-and-execution pipeline of bob_the_db_chatbot:   *)
(*   - DatabaseService._get_engine, the per-key engine pool with TTL       *)
(*     recycling (backend/services/database_service.py);                   *)
(*   - SQLGenerationService.generate_sql, the bounded-retry generation     *)
(*     orchestrator (backend/services/sql_generation_service.py);          *)
(*   - handle_single_query, the request-level retry loop (backend/app.py); *)
(*   - _parse_response and generate_chained_sql, on JSON texts (SpecChained)*)
(*     and generate_sql called with its default error_history (SpecDirect);*)
(*   - DatabaseService.get_data_table, statement classification and        *)
(*     transactions (SpecExec), and the rows it returns, up to the data    *)
(*     sample of generate_visuals (SpecRows);                              *)
(*   - execute_query, analyze_query_type and handle_multi_step, the        *)
(*     classifier and the chain of steps (SpecQuery);                      *)
(*   - DatabaseService.close_all_connections beside _get_engine (SpecPool) *)
(*     and execute_batch_sql, the batch in one transaction (SpecBatch).    *)
(*                                                                         *)
(* Scheduling is asyncio's: a coroutine runs without preemption between    *)
(* two awaits that really suspend.  asyncio.Lock.acquire() returns without *)
(* suspending when the lock is free, and lines 59-73 of                    *)
(* database_service.py hold no await, so the lock of a key is never held   *)
(* across a suspension; the only suspension inside _get_engine is the      *)
(* await of dispose() on line 50.                                          *)
(***************************************************************************)
EXTENDS Integers, Naturals, Sequences, FiniteSets, TLC

\* ------------------------------------------------------------------ bounds
NTasks == 2
MaxCalls == 3
MaxTime == 301
MaxQueryLen == 3
NCallers == 2
MaxDirectCalls == 2
MaxCommits == 2
MaxRows == 4
MaxDelta == 1
MaxSteps == 3
MaxBatch == 3

\* ------------------------------------------------------- program constants
TTL == 300
max_attempts_inner == 3
max_attempts_outer == 4

\* --------------------------------------------------------------- universes
Tasks == 1..NTasks

\* A DatabaseService instance: 0 is the module-level db_service of app.py,
\* t > 0 is the instance owned by the SQLGenerationService that request t
\* constructs.
AppService == 0
Services == {AppService} \cup Tasks

\* The database kinds of DatabaseType, and one kind outside the enum.
SupportedTypes == {"mysql", "postgresql"}

\* Connection descriptors (AIConnection): name and database_name are
\* strings, written as sequences of characters.
Descriptors ==
    { [name |-> <<"a">>, database_name |-> <<"b", "_", "c">>, db_type |-> "postgresql"],
      [name |-> <<"a", "_", "b">>, database_name |-> <<"c">>, db_type |-> "sqlite"],
      [name |-> <<"a">>, database_name |-> <<"c">>, db_type |-> "mysql"] }

\* The steps by which the clock may advance between two scheduling points.
TickSteps == {TTL, TTL + 1}

VARIABLES
    now,                    \* datetime.now(), in seconds
    engines,                \* self.engines of each DatabaseService: key -> handle
    engine_creation_times,  \* self.engine_creation_times: key -> time
    engine_locks,           \* self.engine_locks: the keys that have a lock object
    handles,                \* every engine ever constructed, in construction order
    mutations,              \* history: the kinds of pool mutation performed so far
    pc,                     \* per task: "idle" or "dispose" (suspended on line 50)
    calls,                  \* number of _get_engine calls started so far
    frame,                  \* per task: the locals of its current/last _get_engine call
    result,                 \* per task: the outcome of its last _get_engine call
    rpc,                    \* handle_single_query: where the request is suspended
    connection,             \* handle_single_query: the connection argument
    mode,                   \* handle_single_query: the mode argument
    conversation_id,        \* handle_single_query: the conversation_id argument (0 = None)
    attempt,                \* handle_single_query: attempt
    error_history,          \* handle_single_query: error_history
    gen,                    \* the locals and the log of the current generate_sql invocation
    prompt,                 \* the last prompt built by _build_prompt
    llm_calls,              \* invoke_model calls made by generate_sql for the request
    visual_calls,           \* invoke_model calls made by generate_visuals for the request
    exhaustions,            \* times generate_sql raised its exhaustion error
    outcome,                \* what handle_single_query returned or raised
    commits,                \* history: generated statements of the request that
                            \* get_data_table executed and committed
    cpc,                    \* generate_chained_sql: "idle", "llm", "returned" or "raised"
    response,               \* generate_chained_sql: the text returned by invoke_model
    parsed,                 \* generate_chained_sql: what _parse_response returned or raised
    context,                \* generate_chained_sql: the context argument
    full_prompt,            \* generate_chained_sql: what full_prompt embeds
    default_error_history,  \* the list bound to generate_sql's error_history default
    direct,                 \* per caller: its generate_sql invocation without error_history
    direct_calls,           \* number of such invocations started so far
    xpc,                    \* get_data_table: where the call is suspended
    xcall,                  \* get_data_table: the arguments and locals of the call
    database,               \* the database: committed writes and writes pending in the
                            \* transaction of the call's connection
    xresult,                \* get_data_table: what the call returned or raised
    npc,                    \* result processing: "idle", "fetched", "returned" or "visuals"
    engine_result,          \* get_data_table: result, with rows and columns of lines 229-230
    data_table,             \* get_data_table: the list returned on line 246 or 248
    sample_data,            \* generate_visuals: sample_data, or why there is none
    qpc,                    \* execute_query: where the request is suspended
    analysis,               \* execute_query: analysis, or that analyze_query_type raised
    step_i,                 \* handle_multi_step: i
    step_results,           \* handle_multi_step: results
    executed,               \* history: the get_data_table calls of the chain that ended
    qoutcome,               \* what execute_query returned or raised
    bpc,                    \* execute_batch_sql: where the request is suspended
    batch,                  \* execute_batch_sql: request.sql_queries, total_affected and
                            \* the statements executed so far
    boutcome                \* what execute_batch_sql returned or raised

poolVars == <<now, engines, engine_creation_times, engine_locks, handles, mutations>>
taskVars == <<pc, calls, frame, result>>
reqVars == <<rpc, connection, mode, conversation_id, attempt, error_history, gen, prompt,
             llm_calls, visual_calls, exhaustions, outcome, commits>>
chainVars == <<cpc, response, parsed, context, full_prompt>>
directVars == <<default_error_history, direct, direct_calls>>
execVars == <<xpc, xcall, database, xresult>>
rowVars == <<npc, engine_result, data_table, sample_data>>
queryVars == <<qpc, analysis, step_i, step_results, executed, qoutcome>>
batchVars == <<bpc, batch, boutcome>>
unitVars == <<chainVars, directVars, execVars, rowVars, queryVars, batchVars>>
vars == <<now, engines, engine_creation_times, engine_locks, handles, mutations,
          pc, calls, frame, result,
          rpc, connection, mode, conversation_id, attempt, error_history, gen, prompt,
          llm_calls, visual_calls, exhaustions, outcome, commits,
          cpc, response, parsed, context, full_prompt,
          default_error_history, direct, direct_calls,
          xpc, xcall, database, xresult,
          npc, engine_result, data_table, sample_data,
          qpc, analysis, step_i, step_results, executed, qoutcome,
          bpc, batch, boutcome>>

\* ------------------------------------------------------------ pure helpers
\* connection_key = f"{connection.name}_{connection.database_name}"
ConnectionKey(d) == d.name \o <<"_">> \o d.database_name

Keys == { ConnectionKey(d) : d \in Descriptors }

\* _create_connection_url: TRUE when a URL is returned, FALSE when ValueError
\* is raised.
CreateConnectionUrlOk(d) == d.db_type \in SupportedTypes

\* (current_time - creation_time).total_seconds() > 300
IsExpiredAtTTL(current_time, creation_time) == current_time - creation_time >= TTL
IsExpired(current_time, creation_time) == current_time - creation_time > TTL

\* dict helpers
DictDel(f, k) == [x \in (DOMAIN f) \ {k} |-> f[x]]
DictPut(f, k, v) == [x \in (DOMAIN f) \cup {k} |-> IF x = k THEN v ELSE f[x]]
EmptyDict == [x \in {} |-> 0]

NoFrame == [callno |-> 0, d |-> CHOOSE d \in Descriptors : TRUE, svc |-> AppService,
            current_time |-> 0, disposing |-> 0,
            seen |-> 0, seenAge |-> 0, seenState |-> "none", built |-> 0,
            di_used |-> 0, len |-> 0, di_pos |-> 0]
NoResult == [kind |-> "none", h |-> 0]

\* generate_sql before its first invocation.
NoGen == [attempt |-> 0, start |-> 0, hist0 |-> 0, calls |-> 0, resps |-> <<>>,
          status |-> "none", hist_end |-> <<>>]
NoPrompt == [attempt |-> 0, errors |-> <<>>, instructions |-> FALSE]
NoOutcome == [kind |-> "none", errors |-> <<>>, attempts |-> 0]

\* The callers that invoke generate_sql with its default error_history, and
\* such a caller before its first invocation.
Callers == 1..NCallers
NoDirect == [pc |-> "idle", attempt |-> 0, hist0 |-> <<>>, prompt_errors |-> <<>>]

\* ------------------------------------------------- JSON texts and parsing
\* Python strings are sequences of characters.  A query is written over a
\* letter, the statement separator and the single quote.
QueryChars == {"a", ";", "'"}
QueryStrings == UNION { [1..n -> QueryChars] : n \in 0..MaxQueryLen }

\* required_fields = {'query', 'summary'}
QueryField == <<"q", "u", "e", "r", "y">>
SummaryField == <<"s", "u", "m", "m", "a", "r", "y">>
required_fields == {QueryField, SummaryField}
OtherField == <<"n", "o", "t", "e">>

\* What json.loads makes of a response text: kind "invalid" when it raises
\* JSONDecodeError, else the Python value: a number, a str (text), a list of
\* str (items), or a dict with some keys (fields) whose 'query' value is a
\* str or a number.
JsonValue(kind, text, items, fields, query) ==
    [kind |-> kind, text |-> text, items |-> items, fields |-> fields, query |-> query]
NoQuery == [kind |-> "none", text |-> <<>>]
QueryString(q) == [kind |-> "string", text |-> q]
QueryNumber == [kind |-> "number", text |-> <<>>]
InvalidJson == JsonValue("invalid", <<>>, <<>>, {}, NoQuery)
JsonNumber == JsonValue("number", <<>>, <<>>, {}, NoQuery)
JsonString(text) == JsonValue("string", text, <<>>, {}, NoQuery)
JsonList(items) == JsonValue("list", <<>>, items, {}, NoQuery)
JsonObject(fields, query) == JsonValue("object", <<>>, <<>>, fields, query)
NoJson == JsonValue("none", <<>>, <<>>, {}, NoQuery)

\* The response texts invoke_model may return.
JsonValues ==
    {InvalidJson, JsonNumber}
    \cup { JsonString(t) : t \in {<<"h", "i">>, QueryField \o <<" ">> \o SummaryField} }
    \cup { JsonList(l) : l \in {<<>>, <<QueryField>>, <<SummaryField, QueryField>>} }
    \cup { JsonObject(f, NoQuery) : f \in SUBSET {SummaryField, OtherField} }
    \cup { JsonObject(f \cup {QueryField}, q) :
               f \in SUBSET {SummaryField, OtherField},
               q \in {QueryNumber} \cup { QueryString(t) : t \in QueryStrings } }

\* needle in hay, for two str
IsSubstring(needle, hay) ==
    \E i \in 0..(Len(hay) - Len(needle)) : SubSeq(hay, i + 1, i + Len(needle)) = needle

\* "field in parsed" (line 108) for a str, a list or a dict; on any other
\* value the operator raises TypeError, which ParseJson decides beforehand.
FieldIn(field, v) ==
    CASE v.kind = "string" -> IsSubstring(field, v.text)
      [] v.kind = "list" -> \E i \in 1..Len(v.items) : v.items[i] = field
      [] v.kind = "object" -> field \in v.fields
      [] OTHER -> FALSE

\* _is_semicolon_in_string (lines 131-139): the scan of query from index i.
RECURSIVE ScanQuery(_, _, _)
ScanQuery(query, i, in_string) ==
    IF i > Len(query) THEN TRUE
    ELSE IF query[i] = "'" THEN ScanQuery(query, i + 1, ~in_string)
    ELSE IF query[i] = ";" /\ ~in_string THEN FALSE
    ELSE ScanQuery(query, i + 1, in_string)

IsSemicolonAnywhere(query) == TRUE
IsSemicolonInString(query) == ScanQuery(query, 1, FALSE)

\* "';' in query" (line 117), for a str
HasSemicolon(query) == \E i \in 1..Len(query) : query[i] = ";"

\* The outcome of a call: the value returned, or the exception raised.
Outcome(kind, value) == [kind |-> kind, value |-> value]
NoParsed == Outcome("none", NoJson)

\* _parse_response (lines 101-129) on the text whose json.loads is v.
ParseJson(v) ==
    IF v.kind = "invalid"
    THEN Outcome("JSONDecodeError", v)
    ELSE IF v.kind \notin {"string", "list", "object"}
    THEN Outcome("TypeError", v)
    ELSE IF ~(\A field \in required_fields : FieldIn(field, v))
    THEN Outcome("JSONDecodeError", v)
    ELSE IF v.kind # "object"
    THEN Outcome("TypeError", v)
    ELSE IF v.query.kind # "string"
    THEN Outcome("TypeError", v)
    ELSE IF HasSemicolon(v.query.text) /\ ~IsSemicolonInString(v.query.text)
    THEN Outcome("JSONDecodeError", v)
    ELSE Outcome("ok", v)

\* ------------------------------------------------- statements as texts
\* str.upper() and str.lower() on the letters that occur in the statements.
LowerLetters == <<"a", "c", "d", "e", "f", "l", "m", "n", "o", "p", "r", "s", "t", "u">>
UpperLetters == <<"A", "C", "D", "E", "F", "L", "M", "N", "O", "P", "R", "S", "T", "U">>
LetterIndex(c, letters) == CHOOSE i \in 1..Len(letters) : letters[i] = c
IsIn(c, letters) == \E i \in 1..Len(letters) : letters[i] = c
UpperChar(c) == IF IsIn(c, LowerLetters) THEN UpperLetters[LetterIndex(c, LowerLetters)] ELSE c
LowerChar(c) == IF IsIn(c, UpperLetters) THEN LowerLetters[LetterIndex(c, UpperLetters)] ELSE c
Upper(s) == [i \in 1..Len(s) |-> UpperChar(s[i])]
Lower(s) == [i \in 1..Len(s) |-> LowerChar(s[i])]

Whitespace == {" ", "\n"}

\* str.strip()
RECURSIVE LStrip(_)
LStrip(s) == IF s # <<>> /\ Head(s) \in Whitespace THEN LStrip(Tail(s)) ELSE s
RECURSIVE RStrip(_)
RStrip(s) ==
    IF s # <<>> /\ s[Len(s)] \in Whitespace THEN RStrip(SubSeq(s, 1, Len(s) - 1)) ELSE s
Strip(s) == RStrip(LStrip(s))

\* str.startswith(prefix) and str.startswith(tuple of prefixes)
StartsWith(s, prefix) == Len(prefix) <= Len(s) /\ SubSeq(s, 1, Len(prefix)) = prefix
StartsWithAny(s, prefixes) == \E prefix \in prefixes : StartsWith(s, prefix)

\* str.split(): the maximal runs of characters that are not whitespace
RECURSIVE SplitFrom(_, _, _, _)
SplitFrom(s, i, word, parts) ==
    IF i > Len(s)
    THEN IF word = <<>> THEN parts ELSE Append(parts, word)
    ELSE IF s[i] \in Whitespace
    THEN SplitFrom(s, i + 1, <<>>, IF word = <<>> THEN parts ELSE Append(parts, word))
    ELSE SplitFrom(s, i + 1, Append(word, s[i]), parts)
Split(s) == SplitFrom(s, 1, <<>>, <<>>)

\* ' '.join(parts)
RECURSIVE Join(_)
Join(parts) ==
    IF parts = <<>> THEN <<>>
    ELSE IF Len(parts) = 1 THEN parts[1]
    ELSE parts[1] \o <<" ">> \o Join(Tail(parts))

\* line 218: the tuple of prefixes of a write statement
WriteKeywords == {<<"C", "R", "E", "A", "T", "E">>, <<"D", "R", "O", "P">>, <<"A", "L", "T", "E", "R">>, <<"I", "N", "S", "E", "R", "T">>, <<"U", "P", "D", "A", "T", "E">>, <<"D", "E", "L", "E", "T", "E">>}

\* line 200: the tuple ('select', 'with')
ReadPrefixes == {<<"s", "e", "l", "e", "c", "t">>, <<"w", "i", "t", "h">>}
FromWord == <<"f", "r", "o", "m">>

\* lines 200-215: for PostgreSQL, a statement that does not start with
\* 'select' or 'with' and has a word after its first 'from' that holds no
\* '.', is rebuilt from its words joined by single spaces.
RewriteQuery(db_type, query) ==
    LET parts == Split(query)
        froms == { i \in 1..Len(parts) : Lower(parts[i]) = FromWord }
        ref == (CHOOSE i \in froms : \A j \in froms : i <= j) + 1
    IN IF /\ db_type = "postgresql"
          /\ ~StartsWithAny(Lower(query), ReadPrefixes)
          /\ froms # {}
          /\ ref <= Len(parts)
          /\ ~IsIn(".", parts[ref])
       THEN Join(parts)
       ELSE query

\* line 218: is_write_query
IsWriteQuery(query) == StartsWithAny(Upper(Strip(query)), WriteKeywords)

\* The statements handed to get_data_table: leading whitespace, a first
\* word, and what follows it.
FirstWords == {<<"D", "R", "O", "P">>, <<"d", "r", "o", "p">>, <<"D", "r", "o", "p">>, <<"d", "e", "l", "e", "t", "e">>, <<"s", "e", "l", "e", "c", "t">>, <<"t", "r", "u", "n", "c", "a", "t", "e">>}
Continuations == {<<>>, <<" ", "t">>, <<"s">>, <<" ", "t", " ", "f", "r", "o", "m", " ", " ", "u">>, <<" ", "t", "\n", "f", "r", "o", "m", " ", "s", ".", "u", " ">>, <<"(", "a", ")">>}
Paddings == {<<>>, <<" ">>, <<"\n", " ">>}
Statements == { pad \o w \o rest : pad \in Paddings, w \in FirstWords, rest \in Continuations }

\* The errors the engine raises: whether the exception is a SQLAlchemyError,
\* and its text, word by word.
EngineError(sqlalchemy, text) == [sqlalchemy |-> sqlalchemy, text |-> text]
EngineErrors ==
    { EngineError(TRUE, <<"violates", "foreign", "key", "constraint">>),
      EngineError(TRUE, <<"syntax", "error">>),
      EngineError(FALSE, <<"timeout">>) }

\* lines 250-252: raise Exception(f"Query execution failed: {str(e)}"); any
\* other exception propagates as it is.
RaisedTextGeneric(e) == <<"Query execution failed: ">>
RaisedText(e) == IF e.sqlalchemy THEN <<"Query execution failed: ">> \o e.text ELSE e.text

NoCall == [db_type |-> "none", given |-> <<>>, query |-> <<>>, is_write_query |-> FALSE,
           before |-> 0, effect |-> 0, error |-> EngineError(FALSE, <<>>)]
NoXResult == [kind |-> "none", text |-> <<>>, rows |-> 0]

\* ------------------------------------------------------------ result cells
\* A value of a cell as the driver hands it over: its Python type (kind) and
\* its content.  text holds the characters of a str, of a Decimal and of the
\* repr of a float; an int is sign and magnitude hi * Base + lo (Python
\* ints are unbounded, the model's are not); parts holds the fields of a
\* datetime (year .. microsecond), of a date or of a time.
Base == 134217728
Cell(kind, text, neg, hi, lo, parts) ==
    [kind |-> kind, text |-> text, neg |-> neg, hi |-> hi, lo |-> lo, parts |-> parts]
NoneCell == Cell("NoneType", <<>>, FALSE, 0, 0, <<>>)
StrCell(text) == Cell("str", text, FALSE, 0, 0, <<>>)
FloatCell(text) == Cell("float", text, FALSE, 0, 0, <<>>)
DecimalCell(text) == Cell("Decimal", text, FALSE, 0, 0, <<>>)
BoolCell(b) == Cell("bool", <<>>, FALSE, 0, IF b THEN 1 ELSE 0, <<>>)
IntCell(neg, hi, lo) == Cell("int", <<>>, neg, hi, lo, <<>>)
DatetimeCell(parts) == Cell("datetime", <<>>, FALSE, 0, 0, parts)
DateCell(parts) == Cell("date", <<>>, FALSE, 0, 0, parts)
TimeCell(parts) == Cell("time", <<>>, FALSE, 0, 0, parts)

\* The literals 9007199254740991 and -9007199254740991 of line 241.
MaxSafeInteger == IntCell(FALSE, 67108863, 134217727)
MinSafeInteger == IntCell(TRUE, 67108863, 134217727)

\* The integers at distance delta from the two literals, away from zero for
\* delta > 0 and towards zero for delta < 0.
NearLimit(neg, delta) ==
    LET lo == MaxSafeInteger.lo + delta
    IN IF lo >= Base THEN IntCell(neg, MaxSafeInteger.hi + 1, lo - Base)
       ELSE IntCell(neg, MaxSafeInteger.hi, lo)

\* Python's > and < on two ints.
MagnitudeGreater(x, y) == x.hi > y.hi \/ (x.hi = y.hi /\ x.lo > y.lo)
IntGreater(x, y) ==
    IF x.neg = y.neg
    THEN IF x.neg THEN MagnitudeGreater(y, x) ELSE MagnitudeGreater(x, y)
    ELSE y.neg
IntLess(x, y) == IntGreater(y, x)

\* str(value) of an int: its decimal digits, by repeated division by ten.
DigitChars == <<"0", "1", "2", "3", "4", "5", "6", "7", "8", "9">>
DigitChar(d) == DigitChars[d + 1]
RECURSIVE Digits(_, _)
Digits(hi, lo) ==
    IF hi = 0 /\ lo < 10 THEN <<DigitChar(lo)>>
    ELSE LET t == (hi % 10) * Base + lo
         IN Append(Digits(hi \div 10, t \div 10), DigitChar(t % 10))
IntStr(value) == (IF value.neg THEN <<"-">> ELSE <<>>) \o Digits(value.hi, value.lo)

\* n written with width digits, as the format codes of isoformat do.
RECURSIVE Pad(_, _)
Pad(n, width) == IF width = 0 THEN <<>> ELSE Append(Pad(n \div 10, width - 1), DigitChar(n % 10))

\* datetime.isoformat() of a naive datetime: the microseconds are written
\* only if they are not zero.
IsoFormat(parts) ==
    Pad(parts[1], 4) \o <<"-">> \o Pad(parts[2], 2) \o <<"-">> \o Pad(parts[3], 2)
    \o <<"T">> \o Pad(parts[4], 2) \o <<":">> \o Pad(parts[5], 2) \o <<":">> \o Pad(parts[6], 2)
    \o (IF parts[7] # 0 THEN <<".">> \o Pad(parts[7], 6) ELSE <<>>)

\* repr(float(value)) of a Decimal of at most 15 significant digits written
\* without exponent: the double nearest to it prints as the same number with
\* the zeros at the end of the fraction dropped, and with ".0" if no
\* fraction is left.
RECURSIVE DropTrailingZeros(_)
DropTrailingZeros(s) ==
    IF s # <<>> /\ s[Len(s)] = "0" THEN DropTrailingZeros(SubSeq(s, 1, Len(s) - 1)) ELSE s
PointAt(text) == IF \E i \in 1..Len(text) : text[i] = "."
                 THEN CHOOSE i \in 1..Len(text) : text[i] = "."
                 ELSE Len(text) + 1
FloatRepr(text) ==
    LET p == PointAt(text)
        fraction == DropTrailingZeros(SubSeq(text, p + 1, Len(text)))
    IN SubSeq(text, 1, p - 1) \o <<".">> \o (IF fraction = <<>> THEN <<"0">> ELSE fraction)

\* isinstance(value, int): bool is a subclass of int.
IsInstanceInt(value) == value.kind \in {"int", "bool"}

\* line 241: value > 9007199254740991 or value < -9007199254740991
IsOversizedInclusive(value) ==
    ~IntGreater(MaxSafeInteger, value) \/ ~IntLess(MinSafeInteger, value)
IsOversized(value) == IntGreater(value, MaxSafeInteger) \/ IntLess(value, MinSafeInteger)

\* lines 237-244: the value stored for one cell.  datetime is the class
\* datetime.datetime (line 12), of which a date or a time is no instance.
Normalize(value) ==
    IF value.kind = "Decimal" THEN FloatCell(FloatRepr(value.text))
    ELSE IF value.kind = "datetime" THEN StrCell(IsoFormat(value.parts))
    ELSE IF IsInstanceInt(value) /\ IsOversized(value) THEN StrCell(IntStr(value))
    ELSE value

\* lines 234-245: processed_row after the cells idx.. of row are stored
\* under columns[idx]; a later cell replaces an earlier one of the same name.
RECURSIVE ProcessRow(_, _, _, _)
ProcessRow(columns, row, idx, processed_row) ==
    IF idx > Len(row) THEN processed_row
    ELSE ProcessRow(columns, row, idx + 1,
                    DictPut(processed_row, columns[idx], Normalize(row[idx])))

\* lines 232-246: processed_rows.
ProcessRows(columns, rows) ==
    [i \in 1..Len(rows) |-> ProcessRow(columns, rows[i], 1, EmptyDict)]

\* line 248: [{"affected_rows": result.rowcount}]
AffectedRows(rowcount) ==
    << [c \in {"affected_rows"} |->
           IntCell(rowcount < 0, 0, IF rowcount < 0 THEN -rowcount ELSE rowcount)] >>

\* What the awaited conn.execute gave: result.returns_rows, result.keys(),
\* result.fetchall() and result.rowcount.
EngineResult(returns_rows, columns, rows, rowcount) ==
    [returns_rows |-> returns_rows, columns |-> columns, rows |-> rows, rowcount |-> rowcount]
NoEngineResult == EngineResult(FALSE, <<>>, <<>>, 0)

\* The cells of the results.  The integers are the small ones and those
\* within MaxDelta of the two literals of line 241.
Decimals == {<<"0", ".", "1", "0">>, <<"1", ".", "5">>, <<"1", "2">>}
IntegerCells == {IntCell(FALSE, 0, 0), IntCell(FALSE, 0, 7), IntCell(TRUE, 0, 7)}
            \cup { NearLimit(neg, delta) : neg \in BOOLEAN, delta \in (-MaxDelta)..MaxDelta }
Cells ==
    {NoneCell, BoolCell(TRUE), StrCell(<<"a">>), FloatCell(<<"1", ".", "5">>),
     DatetimeCell(<<2024, 1, 2, 3, 4, 5, 0>>), DatetimeCell(<<2024, 11, 30, 23, 59, 58, 500000>>),
     DateCell(<<2024, 1, 2>>), TimeCell(<<3, 4, 5, 0>>)}
    \cup { DecimalCell(text) : text \in Decimals } \cup IntegerCells
FewCells == {DecimalCell(<<"0", ".", "1", "0">>), IntCell(FALSE, 0, 7)}
SomeCells == {DecimalCell(<<"1", ".", "5">>), DateCell(<<2024, 1, 2>>), NoneCell}

\* The results: one column with up to MaxRows rows, one cell of every kind,
\* two columns of different names or of the same name (as two joined tables
\* give), and a statement that returns no rows.
RowsOf(n, width, cells) == [1..n -> [1..width -> cells]]
EngineResults ==
    { EngineResult(TRUE, <<"a">>, rows, -1) :
          rows \in UNION { RowsOf(n, 1, FewCells) : n \in 0..MaxRows } }
    \cup { EngineResult(TRUE, <<"a">>, <<<<cell>>>>, -1) : cell \in Cells }
    \cup { EngineResult(TRUE, columns, rows, -1) :
               columns \in {<<"a", "b">>, <<"a", "a">>},
               rows \in UNION { RowsOf(n, 2, SomeCells) : n \in 1..2 } }
    \cup { EngineResult(FALSE, <<>>, <<>>, rowcount) : rowcount \in {-1, 0, 1} }

\* json.dumps of one value of a row: what is written, or a TypeError for a
\* type the encoder does not know.
JsonText(type, text) == [type |-> type, text |-> text]
JsonDumpsCell(value) ==
    IF value.kind = "NoneType" THEN JsonText("null", <<"n", "u", "l", "l">>)
    ELSE IF value.kind = "bool"
         THEN JsonText("boolean", IF value.lo = 1 THEN <<"t", "r", "u", "e">>
                                                  ELSE <<"f", "a", "l", "s", "e">>)
    ELSE IF value.kind = "int" THEN JsonText("number", IntStr(value))
    ELSE IF value.kind = "float" THEN JsonText("number", value.text)
    ELSE IF value.kind = "str" THEN JsonText("string", value.text)
    ELSE JsonText("TypeError", <<>>)

\* json.dumps of a list of rows, value by value.
JsonDumpsRows(rows) ==
    [i \in 1..Len(rows) |-> [c \in DOMAIN rows[i] |-> JsonDumpsCell(rows[i][c])]]

\* generate_visuals lines 143-150: convert_decimals on the list of rows.
ConvertDecimals(value) == IF value.kind = "Decimal" THEN StrCell(value.text) ELSE value
ConvertDecimalsRows(results) ==
    [i \in 1..Len(results) |-> [c \in DOMAIN results[i] |-> ConvertDecimals(results[i][c])]]

\* generate_visuals lines 152-158: the data sample of the prompt, none for
\* an empty result, and the TypeError of json.dumps, which line 203 catches.
SampleData(kind, rows) == [kind |-> kind, rows |-> rows]
NoSampleData == SampleData("none", <<>>)
MinOf(a, b) == IF a < b THEN a ELSE b
SampleOf(results) ==
    LET converted_results == ConvertDecimalsRows(results)
        first == SubSeq(converted_results, 1, MinOf(3, Len(converted_results)))
        dumped == JsonDumpsRows(first)
    IN IF Len(results) = 0 THEN NoSampleData
       ELSE IF \E i \in 1..Len(dumped) : \E c \in DOMAIN dumped[i] :
                   dumped[i][c].type = "TypeError"
            THEN SampleData("TypeError", <<>>)
            ELSE SampleData("json", dumped)

\* ---------------------------------------- context of generate_chained_sql
\* The context argument: a dict that may hold 'schema', 'previous_results'
\* and 'previous_queries'.
Context(has_schema, has_previous_results, previous_results, previous_queries) ==
    [has_schema |-> has_schema, has_previous_results |-> has_previous_results,
     previous_results |-> previous_results, previous_queries |-> previous_queries]
NoContext == Context(FALSE, FALSE, <<>>, <<>>)

\* The rows of a previous step: n rows of one column, numbered 1 to n.
PreviousRows(n) == [i \in 1..n |-> [c \in {"a"} |-> IntCell(FALSE, 0, i)]]
PreviousQueries ==
    {<<>>, <<<<"s", "e", "l", "e", "c", "t", " ", "t">>>>,
     <<<<"s", "e", "l", "e", "c", "t", " ", "t">>, <<"d", "e", "l", "e", "t", "e", " ", "t">>>>}
Contexts ==
    { Context(has_schema, TRUE, PreviousRows(n), queries) :
          has_schema \in BOOLEAN, n \in 0..MaxRows, queries \in PreviousQueries }
    \cup { Context(has_schema, FALSE, <<>>, queries) :
               has_schema \in BOOLEAN, queries \in PreviousQueries }

\* lines 262-270: what the f-string embeds: context['schema'], the first
\* three rows of context.get('previous_results', []) and the step prompt.
\* It has no placeholder for any statement of an earlier step.
FullPrompt(has_schema, previous_results, previous_queries) ==
    [has_schema |-> has_schema, previous_results |-> previous_results,
     previous_queries |-> previous_queries]
NoFullPrompt == FullPrompt(FALSE, <<>>, <<>>)
BuildFullPrompt(ctx) ==
    LET previous_results == IF ctx.has_previous_results THEN ctx.previous_results ELSE <<>>
    IN FullPrompt(TRUE,
                  JsonDumpsRows(SubSeq(previous_results, 1, MinOf(3, Len(previous_results)))),
                  <<>>)

\* ------------------------------------------------- classifier and chain
\* A step of the classifier's answer: the description that the prompt of
\* analyze_query_type asks for (a str), or an object with some of the keys
\* that handle_multi_step reads.
PromptKey == <<"p", "r", "o", "m", "p", "t">>
StepKeys == {PromptKey, QueryField, SummaryField}
Step(kind, keys, query) == [kind |-> kind, keys |-> keys, query |-> query]
DescriptionStep == Step("str", {}, <<>>)
DictStep(keys, query) == Step("dict", keys, query)

\* The statements of the steps: one that get_data_table classifies as a
\* write, one that it does not, and a text of two statements.
TwoStatements == <<"d", "r", "o", "p", " ", "t", ";", "d", "r", "o", "p", " ", "u">>
StepQueries == {<<"d", "e", "l", "e", "t", "e", " ", "t">>, <<"s", "e", "l", "e", "c", "t", " ", "t">>,
                TwoStatements}
Steps ==
    {DescriptionStep}
    \cup { DictStep(StepKeys, q) : q \in StepQueries }
    \cup { DictStep(StepKeys \ {SummaryField}, <<"d", "e", "l", "e", "t", "e", " ", "t">>) }
StepLists == UNION { [1..n -> Steps] : n \in 0..MaxSteps }

\* What json.loads gives for the classifier's response: no JSON, a number,
\* a list, or an object with or without "query_type" and "steps".
Analysis(kind, query_type, has_steps, steps) ==
    [kind |-> kind, query_type |-> query_type, has_steps |-> has_steps, steps |-> steps]
NoAnalysis == Analysis("none", "none", FALSE, <<>>)
ClassifierResponses ==
    { Analysis(kind, "none", FALSE, <<>>) : kind \in {"invalid", "number", "list"} }
    \cup { Analysis("object", "none", FALSE, <<>>), Analysis("object", "multi", FALSE, <<>>) }
    \cup { Analysis("object", query_type, TRUE, steps) :
               query_type \in {"single", "multi"}, steps \in StepLists }

\* analyze_query_type lines 254-258: json.loads(response), and the fallback
\* for a response that is no JSON.
JsonLoadsOrFallback(v) ==
    IF v.kind = "invalid" THEN Analysis("object", "single", TRUE, <<>>) ELSE v

\* Line 339: analysis.get("query_type") == "multi" and
\* len(analysis.get("steps", [])) > 1.  A value that is no dict has no get.
IsMultiAtLeastOne(an) == an.query_type = "multi" /\ Len(an.steps) >= 1
IsMulti(an) == an.query_type = "multi" /\ Len(an.steps) > 1

\* The detail "failed_step" of line 263, for the index i of enumerate.
FailedStepIndex(i) == i
FailedStep(i) == i + 1

\* What execute_query returned or raised.
QOutcome(kind, error, failed_step, steps) ==
    [kind |-> kind, error |-> error, failed_step |-> failed_step, steps |-> steps]
NoQOutcome == QOutcome("none", <<>>, 0, <<>>)

\* The connection of the chain's request.
ChainDbType == "postgresql"

\* ------------------------------------------------------ execute_batch_sql
\* The request's sql_queries, the committed changes of the database when the
\* request came, total_affected, and the statements executed so far with
\* their rowcount.
Batch(sql_queries, before, total_affected, done) ==
    [sql_queries |-> sql_queries, before |-> before, total_affected |-> total_affected,
     done |-> done]
NoBatch == Batch(<<>>, 0, 0, <<>>)

\* The lists of statements of a request.
BatchQueries == UNION { [1..n -> StepQueries] : n \in 0..MaxBatch }

\* What execute_batch_sql returned or raised: the status, the message or
\* detail, affected_rows, and the position of the statement that raised.
BOutcome(kind, message, affected_rows, failed_at) ==
    [kind |-> kind, message |-> message, affected_rows |-> affected_rows,
     failed_at |-> failed_at]
NoBOutcome == BOutcome("none", "", 0, 0)

\* ------------------------------------------------------------------- Init
Init ==
    /\ now = 0
    /\ engines = [s \in Services |-> EmptyDict]
    /\ engine_creation_times = [s \in Services |-> EmptyDict]
    /\ engine_locks = [s \in Services |-> {}]
    /\ handles = <<>>
    /\ mutations = {}
    /\ pc = [t \in Tasks |-> "idle"]
    /\ calls = 0
    /\ frame = [t \in Tasks |-> NoFrame]
    /\ result = [t \in Tasks |-> NoResult]
    /\ rpc = "new"
    /\ connection = CHOOSE d \in Descriptors : TRUE
    /\ mode = "ask"
    /\ conversation_id = 0
    /\ attempt = 0
    /\ error_history = <<>>
    /\ gen = NoGen
    /\ prompt = NoPrompt
    /\ llm_calls = 0
    /\ visual_calls = 0
    /\ exhaustions = 0
    /\ outcome = NoOutcome
    /\ commits = 0
    /\ cpc = "idle"
    /\ response = NoJson
    /\ parsed = NoParsed
    /\ context = NoContext
    /\ full_prompt = NoFullPrompt
    /\ default_error_history = <<>>
    /\ direct = [c \in Callers |-> NoDirect]
    /\ direct_calls = 0
    /\ xpc = "idle"
    /\ xcall = NoCall
    /\ database = [committed |-> 0, pending |-> 0]
    /\ xresult = NoXResult
    /\ npc = "idle"
    /\ engine_result = NoEngineResult
    /\ data_table = <<>>
    /\ sample_data = NoSampleData
    /\ qpc = "idle"
    /\ analysis = NoAnalysis
    /\ step_i = 0
    /\ step_results = <<>>
    /\ executed = <<>>
    /\ qoutcome = NoQOutcome
    /\ bpc = "idle"
    /\ batch = NoBatch
    /\ boutcome = NoBOutcome

\* --------------------------------------------------------- _get_engine
\* The DatabaseService a call site uses: generate_sql fetches the schema
\* through the DatabaseService of its own SQLGenerationService, every other
\* caller goes through the module-level db_service.
ServiceOf(t, site) == IF site = "schema" THEN t ELSE AppService

\* line 47: connection_key in self.engines
EntryExists(s, k) == k \in DOMAIN engines[s]

\* lines 48-49: the entry has a creation time and it is more than TTL old
EntryExpired(s, k, current_time) ==
    /\ EntryExists(s, k)
    /\ k \in DOMAIN engine_creation_times[s]
    /\ IsExpired(current_time, engine_creation_times[s][k])

\* lines 55 and 61: connection_key not in self.engines
MustCreateAlways(E, k) == TRUE
MustCreate(E, k) == k \notin DOMAIN E

\* A record of one mutation of the pool: what was done and whether the task
\* doing it was inside "async with self.engine_locks[connection_key]".
Mutation(op, locked) == [op |-> op, locked |-> locked]

\* The locals of a call at its entry (lines 41-48).
EntryFrame(t, d, site) ==
    LET s == ServiceOf(t, site)
        k == ConnectionKey(d)
        here == EntryExists(s, k)
        timed == k \in DOMAIN engine_creation_times[s]
    IN [callno |-> calls + 1, d |-> d, svc |-> s, current_time |-> now, disposing |-> 0,
        seen |-> IF here THEN engines[s][k] ELSE 0,
        seenAge |-> IF here /\ timed THEN now - engine_creation_times[s][k] ELSE 0,
        seenState |-> IF here THEN handles[engines[s][k]].state ELSE "none",
        built |-> 0, di_used |-> 0, len |-> 0, di_pos |-> 0]

\* create_async_engine(...): a new handle, live.
NewHandle(s, d) ==
    [svc |-> s, key |-> ConnectionKey(d), d |-> d, state |-> "live"]

\* lines 54-75, run without suspension on the maps E (engines of the
\* service), T (creation times) as the lines before left them.
GetEngineTail(t, f, E, T, H, M) ==
    LET s == f.svc
        k == ConnectionKey(f.d)
        h == Len(H) + 1
    IN IF MustCreate(E, k)
       THEN /\ engine_locks' = [engine_locks EXCEPT ![s] = @ \cup {k}]
            /\ IF MustCreate(E, k)
               THEN IF CreateConnectionUrlOk(f.d)
                    THEN /\ handles' = Append(H, NewHandle(s, f.d))
                         /\ engines' = [engines EXCEPT ![s] = DictPut(E, k, h)]
                         /\ engine_creation_times' =
                                [engine_creation_times EXCEPT ![s] = DictPut(T, k, f.current_time)]
                         /\ mutations' = M \cup {Mutation("insert", TRUE)}
                         /\ frame' = [frame EXCEPT ![t] = [f EXCEPT !.built = h]]
                         /\ result' = [result EXCEPT ![t] = [kind |-> "handle", h |-> h]]
                    ELSE /\ handles' = H
                         /\ engines' = [engines EXCEPT ![s] = E]
                         /\ engine_creation_times' = [engine_creation_times EXCEPT ![s] = T]
                         /\ mutations' = M
                         /\ frame' = [frame EXCEPT ![t] = f]
                         /\ result' = [result EXCEPT ![t] = [kind |-> "ValueError", h |-> 0]]
               ELSE /\ handles' = H
                    /\ engines' = [engines EXCEPT ![s] = E]
                    /\ engine_creation_times' = [engine_creation_times EXCEPT ![s] = T]
                    /\ mutations' = M
                    /\ frame' = [frame EXCEPT ![t] = f]
                    /\ result' = [result EXCEPT ![t] = [kind |-> "handle", h |-> E[k]]]
       ELSE /\ engine_locks' = engine_locks
            /\ handles' = H
            /\ engines' = [engines EXCEPT ![s] = E]
            /\ engine_creation_times' = [engine_creation_times EXCEPT ![s] = T]
            /\ mutations' = M
            /\ frame' = [frame EXCEPT ![t] = f]
            /\ result' = [result EXCEPT ![t] = [kind |-> "handle", h |-> E[k]]]

\* A call that does not take the expiry branch: lines 41-49 and 54-75, run
\* without suspension.
GetEngineDirect(t, d, site) ==
    LET s == ServiceOf(t, site)
        k == ConnectionKey(d)
    IN /\ ~EntryExpired(s, k, now)
       /\ calls' = calls + 1
       /\ GetEngineTail(t, EntryFrame(t, d, site), engines[s], engine_creation_times[s],
                        handles, mutations)
       /\ UNCHANGED <<now, pc>>

\* A call that finds an entry that is not expired: lines 41-49, 55, 75.
GetEngineHit(t, d, site) ==
    /\ pc[t] = "idle"
    /\ calls < MaxCalls
    /\ EntryExists(ServiceOf(t, site), ConnectionKey(d))
    /\ GetEngineDirect(t, d, site)
    /\ UNCHANGED reqVars
    /\ UNCHANGED unitVars

\* A call that finds no entry: lines 41-47, 55-75.
GetEngineMiss(t, d, site) ==
    /\ pc[t] = "idle"
    /\ calls < MaxCalls
    /\ ~EntryExists(ServiceOf(t, site), ConnectionKey(d))
    /\ GetEngineDirect(t, d, site)
    /\ UNCHANGED reqVars
    /\ UNCHANGED unitVars

\* A call that finds an expired entry: lines 41-50, up to the suspension in
\* "await self.engines[connection_key].dispose()".
GetEngineExpired(t, d, site) ==
    LET s == ServiceOf(t, site)
        k == ConnectionKey(d)
        h == engines[s][k]
    IN /\ pc[t] = "idle"
       /\ calls < MaxCalls
       /\ EntryExpired(s, k, now)
       /\ calls' = calls + 1
       /\ handles' = [handles EXCEPT ![h].state =
                         IF @ = "live" THEN "disposing" ELSE @]
       /\ mutations' = mutations \cup {Mutation("dispose", FALSE)}
       /\ frame' = [frame EXCEPT ![t] = [EntryFrame(t, d, site) EXCEPT !.disposing = h]]
       /\ result' = [result EXCEPT ![t] = NoResult]
       /\ pc' = [pc EXCEPT ![t] = "dispose"]
       /\ UNCHANGED <<now, engines, engine_creation_times, engine_locks>>
       /\ UNCHANGED reqVars
       /\ UNCHANGED unitVars

\* dispose() returns: lines 51-75.  "del self.engines[connection_key]"
\* raises KeyError when the key is no longer in the map.
DisposeDone(t) ==
    LET f == frame[t]
        s == f.svc
        k == ConnectionKey(f.d)
        H == [handles EXCEPT ![f.disposing].state = "disposed"]
    IN /\ pc[t] = "dispose"
       /\ pc' = [pc EXCEPT ![t] = "idle"]
       /\ IF k \in DOMAIN engines[s] /\ k \in DOMAIN engine_creation_times[s]
          THEN GetEngineTail(t, f, DictDel(engines[s], k),
                             DictDel(engine_creation_times[s], k), H,
                             mutations \cup {Mutation("delete", FALSE)})
          ELSE /\ handles' = H
               /\ engines' = [engines EXCEPT ![s] = DictDel(@, k)]
               /\ result' = [result EXCEPT ![t] = [kind |-> "KeyError", h |-> 0]]
               /\ mutations' = IF k \in DOMAIN engines[s]
                               THEN mutations \cup {Mutation("delete", FALSE)}
                               ELSE mutations
               /\ UNCHANGED <<engine_creation_times, engine_locks, frame>>
       /\ UNCHANGED <<now, calls>>
       /\ UNCHANGED reqVars
       /\ UNCHANGED unitVars

\* Time passes between two scheduling points.
Tick(step) ==
    /\ now + step <= MaxTime
    /\ now' = now + step
    /\ UNCHANGED <<engines, engine_creation_times, engine_locks, handles, mutations>>
    /\ UNCHANGED taskVars
    /\ UNCHANGED reqVars
    /\ UNCHANGED unitVars

Sites == {"schema", "exec"}

Next ==
    \/ \E t \in Tasks, d \in Descriptors, site \in Sites : GetEngineHit(t, d, site)
    \/ \E t \in Tasks, d \in Descriptors, site \in Sites : GetEngineMiss(t, d, site)
    \/ \E t \in Tasks, d \in Descriptors, site \in Sites : GetEngineExpired(t, d, site)
    \/ \E t \in Tasks : DisposeDone(t)
    \/ \E step \in TickSteps : Tick(step)

Spec == Init /\ [][Next]_vars

\* ------------------------------------------------ vocabulary of the claims
HandleIds == 1..Len(handles)

\* The handles ever constructed by service s under pool key k.
HandlesOf(s, k) == { h \in HandleIds : handles[h].svc = s /\ handles[h].key = k }

\* Task t has returned from its last _get_engine call with a handle.
Returned(t) == pc[t] = "idle" /\ result[t].kind = "handle"

\* Task t starts a _get_engine call in this step / leaves one in this step.
Starts(t) == frame'[t].callno # frame[t].callno
Finishes(t) == pc'[t] = "idle" /\ (pc[t] = "dispose" \/ Starts(t))

\* C1: for a pool key of one DatabaseService whose entry has never been
\* disposed of, exactly one engine handle has been constructed however many
\* callers asked for it, and every caller that got a handle got that one.
C1_SingleConstruction ==
    \A s \in Services, k \in Keys :
        (\A h \in HandlesOf(s, k) : handles[h].state = "live") =>
            /\ Cardinality(HandlesOf(s, k)) <= 1
            /\ \A t \in Tasks :
                   (Returned(t) /\ frame[t].svc = s /\ ConnectionKey(frame[t].d) = k)
                       => HandlesOf(s, k) = {result[t].h}

\* Two tasks asked the same service for the same key, one constructed the
\* handle and the other received the same handle without constructing.
C1_Witness ==
    \E t1, t2 \in Tasks :
        /\ t1 # t2
        /\ Returned(t1) /\ Returned(t2)
        /\ frame[t1].svc = frame[t2].svc
        /\ ConnectionKey(frame[t1].d) = ConnectionKey(frame[t2].d)
        /\ frame[t1].seen = 0 /\ frame[t1].built = result[t1].h
        /\ frame[t2].built = 0 /\ result[t2].h = result[t1].h
        /\ handles[result[t1].h].state = "live"

\* C2: a call that returns a handle never returns an entry that was older
\* than TTL when the call looked it up; if the entry was older, the call has
\* disposed of it, the map no longer holds it, and the handle returned is one
\* the call constructed; if the entry was not older than TTL the call returns
\* that entry and constructs nothing.
C2_ExpiredNeverReturned ==
    \A t \in Tasks :
        Returned(t) =>
            LET f == frame[t]
                r == result[t]
            IN /\ (f.seen # 0 /\ f.seenAge > TTL) =>
                      /\ r.h # f.seen
                      /\ handles[f.seen].state = "disposed"
                      /\ \A k \in DOMAIN engines[f.svc] : engines[f.svc][k] # f.seen
                      /\ f.built # 0 /\ r.h = f.built
               /\ (f.seen # 0 /\ f.seenAge <= TTL) =>
                      /\ r.h = f.seen
                      /\ f.built = 0

\* A call found an entry older than TTL and has returned.
C2_Witness ==
    \E t \in Tasks :
        /\ Returned(t)
        /\ frame[t].seen # 0 /\ frame[t].seenAge > TTL
        /\ frame[t].built = result[t].h

\* C3: at every instant at most one engine handle that has been constructed
\* and not yet disposed of exists per pool key of a DatabaseService.
C3_AtMostOneUndisposedHandle ==
    \A s \in Services, k \in Keys :
        Cardinality({ h \in HandlesOf(s, k) : handles[h].state # "disposed" }) <= 1

\* C4: every mutation of the pool (insert, dispose, delete) is performed by
\* a task that holds the lock of the key.
C4_MutationsUnderLock == \A m \in mutations : m.locked

\* C5: across the whole process there is at most one live handle per
\* (connection name, database name) pair.
C5_OneLiveHandlePerPair ==
    \A d \in Descriptors :
        Cardinality({ h \in HandleIds :
                        /\ handles[h].d.name = d.name
                        /\ handles[h].d.database_name = d.database_name
                        /\ handles[h].state = "live" }) <= 1

\* C6: no _get_engine call looks up an entry whose disposal has begun.
C6_NoLookupOfDisposingEntry ==
    \A t \in Tasks : frame[t].seenState \in {"none", "live"}

\* C7: a construction failure leaves no entry and no creation time for the
\* key, and every acquisition that runs while the key has no entry behaves
\* as a cache miss: it constructs a handle and returns it, or fails with its
\* own construction failure.
C7_FailureLeavesCacheMiss ==
    [][\A t \in Tasks :
          Finishes(t) =>
              LET f == frame'[t]
                  s == f.svc
                  k == ConnectionKey(f.d)
              IN /\ result'[t].kind = "ValueError" =>
                        /\ k \notin DOMAIN engines'[s]
                        /\ k \notin DOMAIN engine_creation_times'[s]
                 /\ k \notin DOMAIN engines[s] =>
                        IF CreateConnectionUrlOk(f.d)
                        THEN result'[t].kind = "handle" /\ result'[t].h = f.built /\ f.built # 0
                        ELSE result'[t].kind = "ValueError"]_vars

\* ------------------------------------- generate_sql / handle_single_query
\* The request whose handle_single_query run is followed; its
\* SQLGenerationService owns the DatabaseService of the same number.
ReqTask == CHOOSE t \in Tasks : \A u \in Tasks : t <= u

Modes == {"ask", "execute"}

\* The texts invoke_model returns to generate_sql, by name: text that is not
\* JSON, an object without 'query', an object whose query has a ';' outside
\* a string literal, a JSON number, and an object with both fields and a
\* single statement.
Responses == {"not_json", "missing_field", "multi_statement", "scalar", "ok"}

\* The text of each name, as json.loads reads it.
ResponseValue(resp) ==
    CASE resp = "not_json" -> InvalidJson
      [] resp = "missing_field" -> JsonObject({SummaryField}, NoQuery)
      [] resp = "multi_statement" ->
             JsonObject(required_fields, QueryString(<<"a", ";", "a">>))
      [] resp = "scalar" -> JsonNumber
      [] OTHER -> JsonObject(required_fields, QueryString(<<"a">>))

\* _parse_response: "ok" when parsed is returned, else the exception raised.
ParseResponse(resp) == ParseJson(ResponseValue(resp)).kind

\* What get_data_table may do once it has its engine.
ExecResults == {"rows", "no_rows"}
ExecErrors == {"fk_violation", "db_error"}

\* An entry of error_history: who appended it, for which attempt, and why.
HistoryEntry(by, a, e) == [by |-> by, attempt |-> a, error |-> e]

\* error_history.append(x): the list object is extended in place, so the
\* caller's list and the callee's are the same list.
ListAppendToFresh(l, x) == <<x>>
ListAppend(l, x) == Append(l, x)

\* generate_sql line 37: while attempt <= max_attempts
LoopContinuesBelowMax(a) == a < max_attempts_inner
LoopContinuesBeyondMax(a) == a <= max_attempts_inner + 1
LoopContinues(a) == a <= max_attempts_inner

\* handle_single_query lines 225-241: the except clause of the loop body,
\* for outer attempt a, exception e and error history hist.
HandleFailureFallsThrough(a, e, hist) ==
    LET errors == ListAppend(hist, HistoryEntry("handle_single_query", a, e))
    IN /\ error_history' = errors
       /\ rpc' = "loop"
       /\ outcome' = outcome
HandleFailure(a, e, hist) ==
    LET errors == ListAppend(hist, HistoryEntry("handle_single_query", a, e))
    IN /\ error_history' = errors
       /\ IF a >= max_attempts_outer
          THEN /\ rpc' = "raised"
               /\ outcome' = [kind |-> "HTTP500", errors |-> errors, attempts |-> a]
          ELSE /\ rpc' = "loop"
               /\ outcome' = outcome

\* _build_prompt lines 59-76: attempt_context always names the attempt;
\* error_context lists the errors and ends with the six instructions only
\* if error_history is not empty, and is the empty text otherwise.
BuildPromptAlwaysInstructs(a, hist) == [attempt |-> a, errors |-> hist, instructions |-> TRUE]
BuildPrompt(a, hist) ==
    IF hist # <<>>
    THEN [attempt |-> a, errors |-> hist, instructions |-> TRUE]
    ELSE [attempt |-> a, errors |-> <<>>, instructions |-> FALSE]

\* generate_sql lines 37-40 and 49: the head of the while loop with locals g
\* and error history hist, up to the suspension in invoke_model, or the
\* ValueError after the loop, which handle_single_query catches at once.
GenerateLoop(a, g, hist) ==
    IF LoopContinues(g.attempt)
    THEN /\ prompt' = BuildPrompt(g.attempt, hist)
         /\ llm_calls' = llm_calls + 1
         /\ gen' = [g EXCEPT !.calls = @ + 1]
         /\ error_history' = hist
         /\ rpc' = "llm"
         /\ UNCHANGED <<exhaustions, outcome>>
    ELSE /\ gen' = [g EXCEPT !.status = "exhausted", !.hist_end = hist]
         /\ exhaustions' = exhaustions + 1
         /\ HandleFailure(a, "ValueError", hist)
         /\ UNCHANGED <<prompt, llm_calls>>

\* handle_single_query lines 128-134.
StartRequest(d, m, c) ==
    /\ rpc = "new"
    /\ rpc' = "loop"
    /\ connection' = d
    /\ mode' = m
    /\ conversation_id' = c
    /\ attempt' = 0
    /\ error_history' = <<>>
    /\ UNCHANGED <<gen, prompt, llm_calls, visual_calls, exhaustions, outcome>>
    /\ UNCHANGED poolVars
    /\ UNCHANGED taskVars
    /\ UNCHANGED commits
    /\ UNCHANGED unitVars

\* handle_single_query lines 136-147 and generate_sql line 29 up to the
\* first suspension of generate_schema: the engine is acquired from the
\* DatabaseService of the request's SQLGenerationService.
BeginAttempt ==
    /\ rpc = "loop"
    /\ attempt < max_attempts_outer
    /\ attempt' = attempt + 1
    /\ GetEngineDirect(ReqTask, connection, "schema")
    /\ IF result'[ReqTask].kind = "handle"
       THEN /\ rpc' = "schema"
            /\ gen' = [NoGen EXCEPT !.attempt = attempt', !.start = attempt',
                                    !.hist0 = Len(error_history), !.status = "running"]
            /\ UNCHANGED <<error_history, outcome>>
       ELSE /\ gen' = [NoGen EXCEPT !.attempt = attempt', !.start = attempt',
                                    !.hist0 = Len(error_history), !.status = "error",
                                    !.hist_end = error_history]
            /\ HandleFailure(attempt', result'[ReqTask].kind, error_history)
    /\ UNCHANGED <<connection, mode, conversation_id, prompt, llm_calls, visual_calls,
                   exhaustions>>
    /\ UNCHANGED commits
    /\ UNCHANGED unitVars

\* generate_schema returns (ok) or raises: generate_sql lines 29-40.
SchemaFetched(ok) ==
    /\ rpc = "schema"
    /\ IF ok
       THEN GenerateLoop(attempt, gen, error_history)
       ELSE /\ gen' = [gen EXCEPT !.status = "error", !.hist_end = error_history]
            /\ HandleFailure(attempt, "SchemaError", error_history)
            /\ UNCHANGED <<prompt, llm_calls, exhaustions>>
    /\ UNCHANGED <<connection, mode, conversation_id, attempt, visual_calls>>
    /\ UNCHANGED poolVars
    /\ UNCHANGED taskVars
    /\ UNCHANGED commits
    /\ UNCHANGED unitVars

\* invoke_model returns a response that passes _parse_response: generate_sql
\* line 42 returns, handle_single_query lines 149-169 follow, up to the
\* first suspension of get_data_table (or the return of mode 'ask', the
\* test of line 158).
ReturnsBeforeExecutionNever(m) == FALSE
ReturnsBeforeExecution(m) == m = "ask"

LLMResponseValid(resp) ==
    /\ rpc = "llm"
    /\ ParseResponse(resp) = "ok"
    /\ gen' = [gen EXCEPT !.resps = Append(@, resp), !.status = "returned",
                          !.hist_end = error_history]
    /\ IF ReturnsBeforeExecution(mode)
       THEN /\ rpc' = "returned"
            /\ outcome' = [kind |-> "ask", errors |-> <<>>, attempts |-> attempt]
            /\ UNCHANGED error_history
            /\ UNCHANGED poolVars
            /\ UNCHANGED taskVars
       ELSE /\ GetEngineDirect(ReqTask, connection, "exec")
            /\ IF result'[ReqTask].kind = "handle"
               THEN /\ rpc' = "exec"
                    /\ UNCHANGED <<error_history, outcome>>
               ELSE HandleFailure(attempt, result'[ReqTask].kind, error_history)
    /\ UNCHANGED <<connection, mode, conversation_id, attempt, prompt, llm_calls,
                   visual_calls, exhaustions>>
    /\ UNCHANGED commits
    /\ UNCHANGED unitVars

\* invoke_model returns a response on which _parse_response raises
\* JSONDecodeError: generate_sql lines 43-47, then the loop head again.
LLMResponseInvalid(resp) ==
    /\ rpc = "llm"
    /\ ParseResponse(resp) = "JSONDecodeError"
    /\ GenerateLoop(attempt,
                    [gen EXCEPT !.resps = Append(@, resp), !.attempt = @ + 1],
                    ListAppend(error_history,
                               HistoryEntry("generate_sql", gen.attempt, "JSONDecodeError")))
    /\ UNCHANGED <<connection, mode, conversation_id, attempt, visual_calls>>
    /\ UNCHANGED poolVars
    /\ UNCHANGED taskVars
    /\ UNCHANGED commits
    /\ UNCHANGED unitVars

\* invoke_model returns a response on which _parse_response raises an
\* exception that generate_sql does not catch.
LLMResponseUncaught(resp) ==
    /\ rpc = "llm"
    /\ ParseResponse(resp) = "TypeError"
    /\ gen' = [gen EXCEPT !.resps = Append(@, resp), !.status = "error",
                          !.hist_end = error_history]
    /\ HandleFailure(attempt, "TypeError", error_history)
    /\ UNCHANGED <<connection, mode, conversation_id, attempt, prompt, llm_calls,
                   visual_calls, exhaustions>>
    /\ UNCHANGED poolVars
    /\ UNCHANGED taskVars
    /\ UNCHANGED commits
    /\ UNCHANGED unitVars

\* What can go wrong inside invoke_model (bedrock_service.py lines 32-38):
\* the client call raises, json.loads of the body raises, the body has no
\* content[0]["text"].
InvokeFailures == {"ClientError", "JSONDecodeError", "KeyError"}

\* bedrock_service.py lines 40-41: whatever was raised is replaced by
\* Exception("Bedrock API error: ...").
InvokeModelRaisesCause(cause) == cause
InvokeModelRaises(cause) == "Exception"

\* generate_sql line 43: except json.JSONDecodeError
CaughtByGenerateSql(exc) == exc = "JSONDecodeError"

\* invoke_model raises: generate_sql retries what line 43 catches and lets
\* everything else through to handle_single_query.
LLMFails(cause) ==
    /\ rpc = "llm"
    /\ IF CaughtByGenerateSql(InvokeModelRaises(cause))
       THEN GenerateLoop(attempt, [gen EXCEPT !.attempt = @ + 1],
                         ListAppend(error_history,
                                    HistoryEntry("generate_sql", gen.attempt,
                                                 "JSONDecodeError")))
       ELSE /\ gen' = [gen EXCEPT !.status = "error", !.hist_end = error_history]
            /\ HandleFailure(attempt, "BedrockError", error_history)
            /\ UNCHANGED <<prompt, llm_calls, exhaustions>>
    /\ UNCHANGED <<connection, mode, conversation_id, attempt, visual_calls>>
    /\ UNCHANGED poolVars
    /\ UNCHANGED taskVars
    /\ UNCHANGED commits
    /\ UNCHANGED unitVars

\* handle_single_query lines 199-223 once the visuals are known: save the
\* message when there is a conversation, then return.
AfterVisuals ==
    IF conversation_id # 0
    THEN /\ rpc' = "save"
         /\ outcome' = outcome
    ELSE /\ rpc' = "returned"
         /\ outcome' = [kind |-> "single", errors |-> <<>>, attempts |-> attempt]

\* get_data_table returns: handle_single_query lines 187-189; generate_visuals
\* invokes the model only for a non-empty result.
ExecReturns(res, is_write_query) ==
    /\ rpc = "exec"
    /\ commits' = IF is_write_query THEN commits + 1 ELSE commits
    /\ IF res = "rows"
       THEN /\ rpc' = "visuals"
            /\ visual_calls' = visual_calls + 1
            /\ outcome' = outcome
       ELSE /\ AfterVisuals
            /\ visual_calls' = visual_calls
    /\ UNCHANGED <<connection, mode, conversation_id, attempt, error_history, gen, prompt,
                   llm_calls, exhaustions>>
    /\ UNCHANGED poolVars
    /\ UNCHANGED taskVars
    /\ UNCHANGED unitVars

\* get_data_table raises: handle_single_query lines 170-185, whose
\* HTTPException(400) and re-raise both end in the except clause of line 225.
ExecRaises(err) ==
    /\ rpc = "exec"
    /\ HandleFailure(attempt, IF err = "fk_violation" THEN "HTTP400" ELSE "DbError",
                     error_history)
    /\ UNCHANGED <<connection, mode, conversation_id, attempt, gen, prompt, llm_calls,
                   visual_calls, exhaustions>>
    /\ UNCHANGED poolVars
    /\ UNCHANGED taskVars
    /\ UNCHANGED commits
    /\ UNCHANGED unitVars

\* What generate_visuals returns: the dict of lines 203-205 when anything
\* raised inside its try block, and otherwise what json.loads read from the
\* model's response (_parse_visual_response lines 208-219), which is a dict,
\* or a list or a str, in which the test of line 212 finds nothing.
VisualResponses == {"dict", "list", "str"}

\* generate_visuals returns visual_response: handle_single_query line 189
\* calls visual_response.get, which only a dict has; the AttributeError ends
\* in the except clause of line 225.
VisualsDone(visual_response) ==
    /\ rpc = "visuals"
    /\ IF visual_response = "dict"
       THEN /\ AfterVisuals
            /\ UNCHANGED error_history
       ELSE HandleFailure(attempt, "AttributeError", error_history)
    /\ UNCHANGED <<connection, mode, conversation_id, attempt, gen, prompt,
                   llm_calls, visual_calls, exhaustions, commits>>
    /\ UNCHANGED poolVars
    /\ UNCHANGED taskVars
    /\ UNCHANGED unitVars

\* add_conversation_message returns or raises (swallowed, lines 211-213).
SaveDone ==
    /\ rpc = "save"
    /\ rpc' = "returned"
    /\ outcome' = [kind |-> "single", errors |-> <<>>, attempts |-> attempt]
    /\ UNCHANGED <<connection, mode, conversation_id, attempt, error_history, gen, prompt,
                   llm_calls, visual_calls, exhaustions>>
    /\ UNCHANGED poolVars
    /\ UNCHANGED taskVars
    /\ UNCHANGED commits
    /\ UNCHANGED unitVars

NextGen ==
    \/ \E d \in Descriptors, m \in Modes, c \in {0, 1} : StartRequest(d, m, c)
    \/ BeginAttempt
    \/ \E ok \in BOOLEAN : SchemaFetched(ok)
    \/ \E resp \in Responses : LLMResponseValid(resp)
    \/ \E resp \in Responses : LLMResponseInvalid(resp)
    \/ \E resp \in Responses : LLMResponseUncaught(resp)
    \/ \E cause \in InvokeFailures : LLMFails(cause)
    \/ \E res \in ExecResults, is_write_query \in BOOLEAN : ExecReturns(res, is_write_query)
    \/ \E err \in ExecErrors : ExecRaises(err)
    \/ \E visual_response \in VisualResponses : VisualsDone(visual_response)
    \/ SaveDone

SpecGen == Init /\ [][NextGen]_vars

\* C8: a generate_sql invocation started at attempt 1 with an empty error
\* history, all of whose responses were text that is not JSON, ends with the
\* exhaustion error after exactly 3 invoke_model calls, and the error history
\* then holds exactly 3 entries, for attempts 1, 2, 3 in this order.
C8_ThreeMalformedThenExhausted ==
    ( /\ gen.start = 1
      /\ gen.hist0 = 0
      /\ gen.status \in {"returned", "exhausted"}
      /\ \A i \in 1..Len(gen.resps) : gen.resps[i] = "not_json" )
    => /\ gen.status = "exhausted"
       /\ gen.calls = 3
       /\ Len(gen.resps) = 3
       /\ gen.hist_end = << HistoryEntry("generate_sql", 1, "JSONDecodeError"),
                            HistoryEntry("generate_sql", 2, "JSONDecodeError"),
                            HistoryEntry("generate_sql", 3, "JSONDecodeError") >>

\* An invocation started at attempt 1 has raised the exhaustion error after
\* three responses that were not JSON.
C8_Witness ==
    /\ gen.start = 1
    /\ gen.hist0 = 0
    /\ gen.status = "exhausted"
    /\ gen.resps = <<"not_json", "not_json", "not_json">>

\* C9: one generate_sql invocation calls invoke_model at most 3 times, every
\* prompt embeds an attempt number between 1 and 3, and a response that
\* passes validation is the last one of the invocation: the invocation
\* returns with it and calls invoke_model no more.
C9_BoundedAndStopsAtFirstValid ==
    /\ gen.calls <= 3
    /\ prompt # NoPrompt => prompt.attempt \in 1..3
    /\ \A i \in 1..Len(gen.resps) :
           ParseResponse(gen.resps[i]) = "ok" =>
               /\ i = Len(gen.resps)
               /\ gen.calls = i
               /\ gen.status = "returned"
    /\ gen.status = "returned" =>
           /\ Len(gen.resps) >= 1
           /\ ParseResponse(gen.resps[Len(gen.resps)]) = "ok"

\* An invocation has returned on its third response after two responses
\* that failed validation.
C9_Witness ==
    /\ gen.status = "returned"
    /\ gen.calls = 3
    /\ Len(gen.resps) = 3
    /\ ParseResponse(gen.resps[1]) = "JSONDecodeError"
    /\ ParseResponse(gen.resps[3]) = "ok"

\* C10: once generate_sql has raised its exhaustion error no further
\* invoke_model call is made for the request, and the error that reaches the
\* caller carries the whole error history and the attempt count.
C10_ExhaustionNotRetried ==
    [][exhaustions > 0 =>
          /\ llm_calls' = llm_calls
          /\ rpc' = "raised" =>
                 /\ outcome'.errors = error_history'
                 /\ outcome'.attempts = attempt']_vars

\* ------------------------------------------------- generate_chained_sql
\* lines 260-272: the prompt is built and invoke_model is awaited.
ChainedCall(ctx) ==
    /\ cpc \in {"idle", "returned", "raised"}
    /\ context' = ctx
    /\ response' = NoJson
    /\ IF ctx.has_schema
       THEN /\ full_prompt' = BuildFullPrompt(ctx)
            /\ cpc' = "llm"
            /\ parsed' = NoParsed
       ELSE /\ full_prompt' = NoFullPrompt
            /\ cpc' = "raised"
            /\ parsed' = Outcome("KeyError", NoJson)
    /\ UNCHANGED <<poolVars, taskVars, reqVars, directVars, execVars, rowVars, queryVars, batchVars>>

\* invoke_model returns the text v: line 273 returns what _parse_response
\* returns, or raises what it raises.
ChainedResponse(v) ==
    /\ cpc = "llm"
    /\ response' = v
    /\ parsed' = ParseJson(v)
    /\ cpc' = IF ParseJson(v).kind = "ok" THEN "returned" ELSE "raised"
    /\ UNCHANGED <<context, full_prompt>>
    /\ UNCHANGED <<poolVars, taskVars, reqVars, directVars, execVars, rowVars, queryVars, batchVars>>

\* invoke_model raises (bedrock_service.py lines 40-41).
ChainedLLMFails ==
    /\ cpc = "llm"
    /\ cpc' = "raised"
    /\ parsed' = Outcome("Exception", NoJson)
    /\ UNCHANGED <<response, context, full_prompt>>
    /\ UNCHANGED <<poolVars, taskVars, reqVars, directVars, execVars, rowVars, queryVars, batchVars>>

NextChained ==
    \/ \E ctx \in Contexts : ChainedCall(ctx)
    \/ \E v \in JsonValues : ChainedResponse(v)
    \/ ChainedLLMFails

SpecChained == Init /\ [][NextChained]_vars

\* ------------------------- generate_sql called without error_history
\* The default of line 25 is one list, created when the function is
\* defined; every invocation that omits the argument works on that list.
\* lines 21-40 (the suspension in generate_schema is not a separate step):
\* the invocation starts at attempt 1 and builds its first prompt.
DirectCall(c) ==
    /\ direct[c].pc \in {"idle", "returned", "raised"}
    /\ direct_calls < MaxDirectCalls
    /\ direct_calls' = direct_calls + 1
    /\ direct' = [direct EXCEPT ![c] = [pc |-> "llm", attempt |-> 1,
                                         hist0 |-> default_error_history,
                                         prompt_errors |-> default_error_history]]
    /\ UNCHANGED default_error_history
    /\ UNCHANGED <<poolVars, taskVars, reqVars, chainVars, execVars, rowVars, queryVars, batchVars>>

\* invoke_model returns resp to the invocation of caller c: lines 41-49.
DirectResponse(c, resp) ==
    LET f == direct[c]
        errors == ListAppend(default_error_history,
                             HistoryEntry(c, f.attempt, "JSONDecodeError"))
    IN /\ f.pc = "llm"
       /\ IF ParseResponse(resp) = "JSONDecodeError"
          THEN /\ default_error_history' = errors
               /\ direct' = [direct EXCEPT ![c] =
                      IF LoopContinues(f.attempt + 1)
                      THEN [f EXCEPT !.attempt = @ + 1, !.prompt_errors = errors]
                      ELSE [f EXCEPT !.attempt = @ + 1, !.pc = "raised"]]
          ELSE /\ default_error_history' = default_error_history
               /\ direct' = [direct EXCEPT ![c].pc =
                      IF ParseResponse(resp) = "ok" THEN "returned" ELSE "raised"]
       /\ UNCHANGED direct_calls
       /\ UNCHANGED <<poolVars, taskVars, reqVars, chainVars, execVars, rowVars, queryVars, batchVars>>

\* invoke_model raises in the invocation of caller c.
DirectLLMFails(c) ==
    /\ direct[c].pc = "llm"
    /\ direct' = [direct EXCEPT ![c].pc = "raised"]
    /\ UNCHANGED <<default_error_history, direct_calls>>
    /\ UNCHANGED <<poolVars, taskVars, reqVars, chainVars, execVars, rowVars, queryVars, batchVars>>

NextDirect ==
    \/ \E c \in Callers : DirectCall(c)
    \/ \E c \in Callers, resp \in Responses : DirectResponse(c, resp)
    \/ \E c \in Callers : DirectLLMFails(c)

SpecDirect == Init /\ [][NextDirect]_vars

\* ------------------------------------------------------- get_data_table
\* The other units do not touch the state of a get_data_table call.
notExecVars == <<poolVars, taskVars, reqVars, chainVars, directVars, rowVars, queryVars,
                 batchVars>>

\* "async with conn.begin()" left normally: the transaction is committed.
\* Left by an exception, or the connection closed with a transaction that
\* was begun implicitly: the transaction is rolled back.
CommitDiscards(db) == [committed |-> db.committed, pending |-> 0]
Commit(db) == [committed |-> db.committed + db.pending, pending |-> 0]
Rollback(db) == [committed |-> db.committed, pending |-> 0]

\* lines 190-220 and 224: the engine is acquired (as in Spec), a connection
\* is opened, the statement is rewritten and classified; a write statement
\* is sent inside conn.begin(), for any other the isolation level is set
\* first.
GetDataTableStart(db_type, q) ==
    LET query == RewriteQuery(db_type, q)
    IN /\ xpc = "idle"
       /\ database.committed < MaxCommits
       /\ xcall' = [db_type |-> db_type, given |-> q, query |-> query,
                    is_write_query |-> IsWriteQuery(query),
                    before |-> database.committed, effect |-> 0,
                    error |-> EngineError(FALSE, <<>>)]
       /\ xpc' = IF IsWriteQuery(query) THEN "execute" ELSE "isolation"
       /\ xresult' = NoXResult
       /\ UNCHANGED database

\* A call of get_data_table by a caller that the model does not follow.
GetDataTableCall(db_type, q) ==
    /\ GetDataTableStart(db_type, q)
    /\ UNCHANGED notExecVars

\* line 224 returns: the statement itself is sent (line 225).
IsolationSet ==
    /\ xpc = "isolation"
    /\ xpc' = "execute"
    /\ UNCHANGED <<xcall, database, xresult>>
    /\ UNCHANGED notExecVars

\* An await of lines 221-225 raises e, or the commit at the end of
\* conn.begin() does: the transaction is rolled back, the connection is
\* closed and lines 250-252 raise.
EngineRaises(e) ==
    /\ xpc \in {"isolation", "execute", "commit"}
    /\ database' = Rollback(database)
    /\ xcall' = [xcall EXCEPT !.error = e]
    /\ xresult' = [kind |-> "raised", text |-> RaisedText(e), rows |-> 0]
    /\ xpc' = "raised"
    /\ UNCHANGED notExecVars

\* lines 227-248: what get_data_table returns for a statement that gave
\* rows rows (0 when it returns no rows, and then effect rows were affected).
ReturnResult(returns_rows, effect) ==
    [kind |-> IF returns_rows THEN "rows" ELSE "affected_rows", text |-> <<>>,
     rows |-> effect]

\* The statement is executed: it changes effect rows within the
\* transaction of the connection.  A write statement then reaches the end
\* of conn.begin(); for any other the result is built and the connection
\* is closed (lines 227-248).
ExecuteDone(effect, returns_rows) ==
    /\ xpc = "execute"
    /\ xcall' = [xcall EXCEPT !.effect = effect]
    /\ IF xcall.is_write_query
       THEN /\ database' = [database EXCEPT !.pending = effect]
            /\ xpc' = "commit"
            /\ xresult' = ReturnResult(returns_rows, effect)
       ELSE /\ database' = Rollback([database EXCEPT !.pending = effect])
            /\ xpc' = "returned"
            /\ xresult' = ReturnResult(returns_rows, effect)
    /\ UNCHANGED notExecVars

\* The commit at the end of conn.begin() succeeds; lines 227-248 follow.
CommitDone ==
    /\ xpc = "commit"
    /\ database' = Commit(database)
    /\ xpc' = "returned"
    /\ UNCHANGED <<xcall, xresult>>
    /\ UNCHANGED notExecVars

\* The caller has its result or its exception: the locals of the call are
\* gone and the next call can start.
CallOver ==
    /\ xpc \in {"returned", "raised"}
    /\ xpc' = "idle"
    /\ xcall' = NoCall
    /\ xresult' = NoXResult
    /\ UNCHANGED database
    /\ UNCHANGED notExecVars

NextExec ==
    \/ \E db_type \in SupportedTypes, q \in Statements : GetDataTableCall(db_type, q)
    \/ IsolationSet
    \/ \E e \in EngineErrors : EngineRaises(e)
    \/ \E effect \in {0, 1}, returns_rows \in BOOLEAN : ExecuteDone(effect, returns_rows)
    \/ CommitDone
    \/ CallOver

SpecExec == Init /\ [][NextExec]_vars

\* ---------------------------------------------- vocabulary of C11 and C12
\* The number of single quotes before position i of q.
QuotesBefore(q, i) == Cardinality({ j \in 1..(i - 1) : q[j] = "'" })

\* Every ';' of q is preceded by an odd number of single quotes.
NoUnquotedSeparator(q) ==
    \A i \in 1..Len(q) : q[i] = ";" => QuotesBefore(q, i) % 2 = 1

\* v is a JSON object with a 'query' and a 'summary' field whose query is a
\* single statement.
Conforming(v) ==
    /\ v.kind = "object"
    /\ required_fields \subseteq v.fields
    /\ v.query.kind = "string"
    /\ NoUnquotedSeparator(v.query.text)

\* C11: whenever generate_sql receives a response that is not a JSON object
\* with 'query' and 'summary' and a single-statement query, it appends its
\* own description of the failure to the error history and moves to the
\* next attempt (or to exhaustion); it neither returns a result nor lets
\* another kind of error escape.
C11_NonConformingIsValidationFailure ==
    [][\A resp \in Responses :
          ( /\ rpc = "llm"
            /\ gen'.resps = Append(gen.resps, resp)
            /\ ~Conforming(ResponseValue(resp)) )
          => /\ gen'.status \in {"running", "exhausted"}
             /\ gen'.attempt = gen.attempt + 1
             /\ Len(error_history') > Len(error_history)
             /\ error_history'[Len(error_history) + 1] =
                    HistoryEntry("generate_sql", gen.attempt, "JSONDecodeError")]_vars

\* C12: _parse_response accepts an object with both fields and a str query
\* if and only if every ';' of the query is preceded by an odd number of
\* single quotes, and every result generate_chained_sql returns has such a
\* query.
C12_AcceptedIffSeparatorsQuoted ==
    /\ ( /\ cpc \in {"returned", "raised"}
         /\ response.kind = "object"
         /\ required_fields \subseteq response.fields
         /\ response.query.kind = "string" )
       => (parsed.kind = "ok" <=> NoUnquotedSeparator(response.query.text))
    /\ cpc = "returned" =>
           /\ parsed.kind = "ok"
           /\ parsed.value.query.kind = "string"
           /\ NoUnquotedSeparator(parsed.value.query.text)

\* A result was returned whose query holds a ';' inside a quoted span.
C12_Witness ==
    /\ cpc = "returned"
    /\ parsed.value.query.kind = "string"
    /\ HasSemicolon(parsed.value.query.text)

\* ------------------------------------------------------ vocabulary of C13
IsPrefix(a, b) == Len(a) <= Len(b) /\ SubSeq(b, 1, Len(a)) = a

\* This step ends an outer attempt of handle_single_query in its except
\* clause (lines 225-241).
OuterAttemptFails == rpc # "new" /\ rpc' \in {"loop", "raised"}

\* This step is a validation failure inside generate_sql (lines 43-47).
ValidationFails ==
    /\ rpc = "llm"
    /\ Len(gen'.resps) > Len(gen.resps)
    /\ ParseResponse(gen'.resps[Len(gen'.resps)]) = "JSONDecodeError"

\* C13: within one request the error history only grows by appending: what
\* it held stays a prefix of what it holds; a validation failure inside
\* generate_sql and a failed outer attempt each add their entry to it; and
\* the prompt of every later invoke_model call is built from that same list.
C13_HistoryAppendOnly ==
    [][/\ rpc # "new" => IsPrefix(error_history, error_history')
       /\ ValidationFails =>
              /\ Len(error_history') > Len(error_history)
              /\ error_history'[Len(error_history) + 1] =
                     HistoryEntry("generate_sql", gen.attempt, "JSONDecodeError")
       /\ OuterAttemptFails =>
              /\ Len(error_history') > Len(error_history)
              /\ error_history'[Len(error_history')].by = "handle_single_query"
              /\ error_history'[Len(error_history')].attempt = attempt'
       /\ llm_calls' > llm_calls => prompt'.errors = error_history']_vars

\* A prompt is built from a history that holds an entry of an earlier outer
\* attempt followed by an entry of generate_sql in a later attempt.
C13_Witness ==
    /\ rpc = "llm"
    /\ \E i, j \in 1..Len(prompt.errors) :
           /\ i < j
           /\ prompt.errors[i].by = "handle_single_query"
           /\ prompt.errors[j].by = "generate_sql"
           /\ prompt.errors[i].attempt < prompt.errors[j].attempt

\* ------------------------------------------------------ vocabulary of C15
\* This step is invoke_model raising inside generate_sql: the request was
\* suspended in invoke_model and leaves it without a response.
InvokeModelFails == rpc = "llm" /\ gen'.resps = gen.resps /\ gen' # gen

\* C15: when invoke_model raises, generate_sql raises at once: it makes no
\* further invoke_model call and appends nothing to the error history (the
\* one entry added is that of handle_single_query's except clause).
C15_InvokeFailureNotRetriedByGenerateSql ==
    [][InvokeModelFails =>
          /\ gen'.status = "error"
          /\ gen'.calls = gen.calls
          /\ gen'.attempt = gen.attempt
          /\ llm_calls' = llm_calls
          /\ gen'.hist_end = error_history
          /\ \A i \in (Len(error_history) + 1)..Len(error_history') :
                 error_history'[i].by # "generate_sql"]_vars

\* invoke_model raised on the second call of an invocation, after one
\* validation failure.
C15_Witness ==
    /\ gen.status = "error"
    /\ gen.calls = 2
    /\ Len(gen.resps) = 1
    /\ Len(error_history) > 0
    /\ error_history[Len(error_history)].error = "BedrockError"

\* ---------------------------------------------- vocabulary of C16 and C17
\* This step is get_data_table raising inside handle_single_query.
ExecutionFails == rpc = "exec" /\ rpc' \in {"loop", "raised"}

\* The request is over: handle_single_query has returned or raised.
RequestOver == rpc \in {"returned", "raised"}

\* C16: when statement execution or the invoke_model call fails, the
\* request ends in that step with an error of the failure's own kind; no
\* further attempt is started.
C16_OnlyValidationFailuresRetried ==
    [][(ExecutionFails \/ InvokeModelFails) =>
          /\ rpc' = "raised"
          /\ outcome'.kind = error_history'[Len(error_history')].error]_vars

\* C17: a request in which statement execution failed with a foreign-key
\* violation ends with the constraint-violation error (status 400, message
\* 'Foreign key constraint violation'), not with another outcome.
C17_ForeignKeyViolationDelivered ==
    ( /\ RequestOver
      /\ \E i \in 1..Len(error_history) : error_history[i].error = "HTTP400" )
    => outcome.kind = "HTTP400"

\* C14: an invocation of generate_sql that is given no error_history starts
\* from an empty history, and every prompt it builds lists only failures of
\* that invocation's own caller.
C14_HistoriesNotShared ==
    \A c \in Callers :
        direct[c].pc # "idle" =>
            /\ direct[c].hist0 = <<>>
            /\ \A i \in 1..Len(direct[c].prompt_errors) :
                   direct[c].prompt_errors[i].by = c

\* ------------------------------------------------ vocabulary of C18 - C20
\* words in text, as a contiguous run
IsSubtext(words, text) ==
    \E i \in 0..(Len(text) - Len(words)) : SubSeq(text, i + 1, i + Len(words)) = words

\* The leading keyword of a statement: the letters at the start of the
\* trimmed statement up to the first character that is not a letter, in
\* upper case.
IsLetter(c) == IsIn(c, LowerLetters) \/ IsIn(c, UpperLetters)
RECURSIVE LeadingLetters(_)
LeadingLetters(s) ==
    IF s # <<>> /\ IsLetter(Head(s)) THEN <<Head(s)>> \o LeadingLetters(Tail(s)) ELSE <<>>
LeadingKeyword(q) == Upper(LeadingLetters(Strip(q)))

\* C18: when an engine error ends a get_data_table call, the text of the
\* error that get_data_table raises contains the engine's error text,
\* unchanged and contiguous.
C18_EngineErrorTextPreserved ==
    xpc = "raised" => IsSubtext(xcall.error.text, xresult.text)

\* A call ended with the wrapped text of a foreign-key violation.
C18_Witness ==
    /\ xpc = "raised"
    /\ xcall.error = EngineError(TRUE, <<"violates", "foreign", "key", "constraint">>)
    /\ Len(xresult.text) > Len(xcall.error.text)

\* C19: a call for a statement classified as write that returns has
\* committed the statement's effects, and one that raises leaves the
\* database as it was before the call; no transaction is left pending.
C19_WriteCommittedOrRolledBack ==
    xcall.is_write_query =>
        /\ xpc = "returned" =>
               /\ database.committed = xcall.before + xcall.effect
               /\ database.pending = 0
        /\ xpc = "raised" =>
               /\ database.committed = xcall.before
               /\ database.pending = 0

\* A write statement changed a row and its call has returned.
C19_Witness ==
    /\ xcall.is_write_query
    /\ xpc = "returned"
    /\ xcall.effect = 1
    /\ database.committed = xcall.before + 1

\* C20: a statement is classified as write if and only if its leading
\* keyword is one of CREATE, DROP, ALTER, INSERT, UPDATE, DELETE.
C20_WriteIffLeadingKeyword ==
    xpc # "idle" =>
        (xcall.is_write_query <=> LeadingKeyword(xcall.given) \in WriteKeywords)

\* An invoke_model call of generate_sql starts in this step.
InvokeModelStarts == llm_calls' > llm_calls

\* C30: the attempts of one generate_sql invocation are sequential: an
\* invoke_model call starts either at the start of the invocation or in the
\* step in which the response of the previous attempt failed validation and
\* its failure was appended to the history, so at most one call is
\* outstanding; the prompt of the call names the attempt, and it carries the
\* instruction block with every failure so far exactly if the history is
\* not empty.
C30_SequentialAttemptsAndPrompt ==
    [][InvokeModelStarts =>
          /\ rpc \in {"schema", "llm"}
          /\ rpc = "llm" =>
                 /\ Len(gen'.resps) = Len(gen.resps) + 1
                 /\ ParseResponse(gen'.resps[Len(gen'.resps)]) = "JSONDecodeError"
                 /\ gen'.attempt = gen.attempt + 1
                 /\ error_history' = Append(error_history,
                        HistoryEntry("generate_sql", gen.attempt, "JSONDecodeError"))
          /\ gen'.calls = Len(gen'.resps) + 1
          /\ prompt'.attempt = gen'.attempt
          /\ prompt'.instructions = (error_history' # <<>>)
          /\ prompt'.errors = error_history']_vars

\* The second invoke_model call of an invocation is outstanding, and its
\* prompt names attempt 2 and carries the instruction block with the
\* failure of attempt 1.
C30_Witness ==
    /\ rpc = "llm"
    /\ gen.start = 1
    /\ gen.calls = 2
    /\ prompt.attempt = 2
    /\ prompt.instructions
    /\ prompt.errors = <<HistoryEntry("generate_sql", 1, "JSONDecodeError")>>

\* ------------------------------------- get_data_table, the rows it returns
\* The other units do not touch the state of result processing.
notRowVars == <<poolVars, taskVars, reqVars, chainVars, directVars, execVars, queryVars,
                batchVars>>

\* line 225 (or 221) returns: the statement was executed and gave res.
FetchAll(res) ==
    /\ npc = "idle"
    /\ npc' = "fetched"
    /\ engine_result' = res
    /\ data_table' = <<>>
    /\ sample_data' = NoSampleData
    /\ UNCHANGED notRowVars

\* lines 227-248: the list get_data_table returns.
ReturnDataTable ==
    /\ npc = "fetched"
    /\ npc' = "returned"
    /\ data_table' = IF engine_result.returns_rows
                     THEN ProcessRows(engine_result.columns, engine_result.rows)
                     ELSE AffectedRows(engine_result.rowcount)
    /\ UNCHANGED <<engine_result, sample_data>>
    /\ UNCHANGED notRowVars

\* handle_single_query lines 167-188 and generate_visuals lines 152-158: the
\* list returned by get_data_table is what generate_visuals is given.
GenerateVisuals ==
    /\ npc = "returned"
    /\ npc' = "visuals"
    /\ sample_data' = SampleOf(data_table)
    /\ UNCHANGED <<engine_result, data_table>>
    /\ UNCHANGED notRowVars

\* The request is over (or the caller was one that builds no visuals).
RowsOver ==
    /\ npc \in {"returned", "visuals"}
    /\ npc' = "idle"
    /\ engine_result' = NoEngineResult
    /\ data_table' = <<>>
    /\ sample_data' = NoSampleData
    /\ UNCHANGED notRowVars

NextRows ==
    \/ \E res \in EngineResults : FetchAll(res)
    \/ ReturnDataTable
    \/ GenerateVisuals
    \/ RowsOver

SpecRows == Init /\ [][NextRows]_vars

\* ---------------------------------------------- vocabulary of C21 to C24
\* get_data_table has returned for a statement that gave rows.
RowsReturned == npc \in {"returned", "visuals"} /\ engine_result.returns_rows

\* The cell of engine row i and column j, and the positions of the result.
EngineCell(i, j) == engine_result.rows[i][j]
RowIds == 1..Len(engine_result.rows)
ColumnIds == 1..Len(engine_result.columns)

\* No other column of the result has the name of column j.
OnlyColumnOfItsName(j) ==
    \A k \in ColumnIds : engine_result.columns[k] = engine_result.columns[j] => k = j

\* The integer that a text of decimal digits with an optional sign denotes.
RECURSIVE IntOfDigits(_, _, _)
IntOfDigits(digits, hi, lo) ==
    IF digits = <<>> THEN <<hi, lo>>
    ELSE LET d == CHOOSE n \in 0..9 : DigitChar(n) = Head(digits)
             t == lo * 10 + d
         IN IntOfDigits(Tail(digits), hi * 10 + (t \div Base), t % Base)
IntOfText(text) ==
    LET neg == text # <<>> /\ Head(text) = "-"
        limbs == IntOfDigits(IF neg THEN Tail(text) ELSE text, 0, 0)
    IN IntCell(neg, limbs[1], limbs[2])

\* text is a decimal numeral: an optional sign, then digits with no zero in
\* front.
IsDecimalNumeral(text) ==
    LET digits == IF text # <<>> /\ Head(text) = "-" THEN Tail(text) ELSE text
    IN /\ digits # <<>>
       /\ \A i \in 1..Len(digits) : \E n \in 0..9 : digits[i] = DigitChar(n)
       /\ Len(digits) > 1 => Head(digits) # "0"

\* The magnitude of an int is at most 9,007,199,254,740,991.
WithinSafeMagnitude(value) ==
    \/ value.hi < MaxSafeInteger.hi
    \/ value.hi = MaxSafeInteger.hi /\ value.lo <= MaxSafeInteger.lo

\* C21: for a statement that gave rows get_data_table returns one row per
\* engine row, in the same order, and each of them holds one entry per
\* returned column, whose value is the normalized cell; for a statement
\* that gave no rows it returns the affected-row count.
C21_OneEntryPerColumnPerRow ==
    npc \in {"returned", "visuals"} =>
        IF engine_result.returns_rows
        THEN /\ Len(data_table) = Len(engine_result.rows)
             /\ \A i \in RowIds :
                    /\ Cardinality(DOMAIN data_table[i]) = Len(engine_result.columns)
                    /\ \A j \in ColumnIds :
                           data_table[i][engine_result.columns[j]] = Normalize(EngineCell(i, j))
        ELSE data_table = AffectedRows(engine_result.rowcount)

\* C22: an int cell whose magnitude is at most 9,007,199,254,740,991 is
\* returned unchanged, and one of greater magnitude is returned as the str
\* that is its decimal numeral, for both signs.
C22_IntegerBoundary ==
    RowsReturned =>
        \A i \in RowIds : \A j \in ColumnIds :
            (EngineCell(i, j).kind = "int" /\ OnlyColumnOfItsName(j)) =>
                LET value == EngineCell(i, j)
                    out == data_table[i][engine_result.columns[j]]
                IN IF WithinSafeMagnitude(value)
                   THEN out = value
                   ELSE /\ out.kind = "str"
                        /\ IsDecimalNumeral(out.text)
                        /\ IntOfText(out.text) = value

\* The integer just below the negative limit, -9007199254740992, has been
\* returned as the text of its decimal numeral.
C22_Witness ==
    /\ RowsReturned
    /\ Len(engine_result.rows) = 1
    /\ EngineCell(1, 1) = NearLimit(TRUE, 1)
    /\ data_table[1]["a"] = StrCell(<<"-", "9", "0", "0", "7", "1", "9", "9", "2", "5", "4",
                                      "7", "4", "0", "9", "9", "2">>)

\* C23: None is returned as None, a datetime, a date or a time is returned
\* as a str, and a value of any other kind but Decimal and oversized int is
\* returned unchanged, so no row returned holds a raw date or time value.
C23_NoRawDateTime ==
    RowsReturned =>
        \A i \in RowIds : \A j \in ColumnIds :
            OnlyColumnOfItsName(j) =>
                LET value == EngineCell(i, j)
                    out == data_table[i][engine_result.columns[j]]
                IN /\ value.kind = "NoneType" => out = NoneCell
                   /\ value.kind \in {"datetime", "date", "time"} => out.kind = "str"
                   /\ value.kind \in {"bool", "str", "float"} => out = value
                   /\ out.kind \notin {"datetime", "date", "time"}

\* C24: a Decimal cell of one of the first three rows of a result is in the
\* data sample of generate_visuals as a JSON string of exactly its digits.
C24_DecimalReachesSampleAsText ==
    (npc = "visuals" /\ engine_result.returns_rows) =>
        \A i \in RowIds : \A j \in ColumnIds :
            (i <= 3 /\ EngineCell(i, j).kind = "Decimal" /\ OnlyColumnOfItsName(j)) =>
                /\ sample_data.kind = "json"
                /\ sample_data.rows[i][engine_result.columns[j]]
                       = JsonText("string", EngineCell(i, j).text)

\* ------------------------------------ execute_query and handle_multi_step
\* The units that a request on the chain path does not touch.
notQueryVars == <<poolVars, taskVars, reqVars, chainVars, directVars, rowVars, batchVars>>

\* execute_query line 337 and analyze_query_type lines 240-253: the prompt
\* is built and invoke_model is awaited.
AnalyzeQueryTypeCall ==
    /\ qpc = "idle"
    /\ qpc' = "classify"
    /\ UNCHANGED <<analysis, step_i, step_results, executed, qoutcome>>
    /\ UNCHANGED execVars
    /\ UNCHANGED notQueryVars

\* invoke_model raises: analyze_query_type awaits it outside its try block
\* and execute_query calls analyze_query_type outside any try block, so the
\* exception leaves execute_query.
ClassifierFails ==
    /\ qpc = "classify"
    /\ qpc' = "raised"
    /\ analysis' = Analysis("raised", "none", FALSE, <<>>)
    /\ qoutcome' = QOutcome("Exception", <<"Bedrock API error">>, 0, <<>>)
    /\ UNCHANGED <<step_i, step_results, executed>>
    /\ UNCHANGED execVars
    /\ UNCHANGED notQueryVars

\* invoke_model returns a response that json.loads reads as v: lines 254-258,
\* then execute_query lines 339-350 choose the path.  get is an attribute of
\* dict only.  handle_single_query takes over on the other path.
ClassifierResponds(v) ==
    /\ qpc = "classify"
    /\ analysis' = JsonLoadsOrFallback(v)
    /\ IF analysis'.kind # "object"
       THEN /\ qpc' = "raised"
            /\ qoutcome' = QOutcome("AttributeError", <<"no attribute 'get'">>, 0, <<>>)
       ELSE IF IsMulti(analysis')
            THEN /\ qpc' = "step"
                 /\ qoutcome' = NoQOutcome
            ELSE /\ qpc' = "single"
                 /\ qoutcome' = NoQOutcome
    /\ step_i' = 0
    /\ step_results' = <<>>
    /\ UNCHANGED executed
    /\ UNCHANGED execVars
    /\ UNCHANGED notQueryVars

\* handle_multi_step lines 256-266: the except clause for step i.
StepFails(i, error, results) ==
    /\ qpc' = "raised"
    /\ qoutcome' = QOutcome("HTTP500", error, FailedStep(i), results)

\* A StepResult: lines 250-255.
StepResult(step, res) == [query |-> step.query, results |-> res]

\* handle_multi_step lines 246-249 for step i: the connection is looked up,
\* step["query"] is evaluated and get_data_table is called.  Indexing a str
\* with a str raises TypeError, a dict without the key raises KeyError.
StepBegin ==
    LET step == analysis.steps[step_i + 1]
    IN /\ qpc = "step"
       /\ IF step.kind # "dict"
          THEN /\ StepFails(step_i, <<"TypeError">>, step_results)
               /\ UNCHANGED execVars
          ELSE IF QueryField \notin step.keys
               THEN /\ StepFails(step_i, <<"KeyError">>, step_results)
                    /\ UNCHANGED execVars
               ELSE /\ GetDataTableStart(ChainDbType, step.query)
                    /\ qpc' = "exec"
                    /\ UNCHANGED qoutcome
       /\ UNCHANGED <<analysis, step_i, step_results, executed>>
       /\ UNCHANGED notQueryVars

\* get_data_table returns or raises for step i: lines 249-266, and for the
\* last step the return of lines 268-272.  The dict of lines 250-255 is built
\* after the statement was executed.
StepEnd ==
    LET step == analysis.steps[step_i + 1]
        results == Append(step_results, StepResult(step, xresult))
    IN /\ qpc = "exec"
       /\ xpc \in {"returned", "raised"}
       /\ executed' = Append(executed, [step |-> step_i + 1, call |-> xcall,
                                        returned |-> xpc = "returned"])
       /\ IF xpc = "raised"
          THEN /\ StepFails(step_i, xresult.text, step_results)
               /\ UNCHANGED <<step_i, step_results>>
          ELSE IF ~(StepKeys \subseteq step.keys)
               THEN /\ StepFails(step_i, <<"KeyError">>, step_results)
                    /\ UNCHANGED <<step_i, step_results>>
               ELSE /\ step_results' = results
                    /\ step_i' = step_i + 1
                    /\ IF step_i + 1 < Len(analysis.steps)
                       THEN /\ qpc' = "step"
                            /\ UNCHANGED qoutcome
                       ELSE /\ qpc' = "returned"
                            /\ qoutcome' = QOutcome("multi", <<>>, 0, results)
       /\ xpc' = "idle"
       /\ xcall' = NoCall
       /\ xresult' = NoXResult
       /\ UNCHANGED <<analysis, database>>
       /\ UNCHANGED notQueryVars

NextQuery ==
    \/ AnalyzeQueryTypeCall
    \/ ClassifierFails
    \/ \E v \in ClassifierResponses : ClassifierResponds(v)
    \/ StepBegin
    \/ IsolationSet
    \/ \E e \in EngineErrors : EngineRaises(e)
    \/ \E effect \in {0, 1}, returns_rows \in BOOLEAN : ExecuteDone(effect, returns_rows)
    \/ CommitDone
    \/ StepEnd

SpecQuery == Init /\ [][NextQuery]_vars

\* ---------------------------------------------- vocabulary of C25 to C29
\* The classifier gave no JSON object: its invoke_model call raised, or the
\* response was JSON of another type.  (A response that is no JSON at all
\* has become the fallback object when analysis is bound.)
ClassificationFailed == analysis.kind \in {"raised", "number", "list"}

\* execute_query has left line 339.
Classified == qpc \notin {"idle", "classify"}

\* The ended get_data_table calls of the chain that were made for step j.
CallsOfStep(j) == { e \in 1..Len(executed) : executed[e].step = j }

\* Step j went through: it has all the keys that are read, and its one
\* get_data_table call returned.
StepSucceeded(j) ==
    /\ analysis.steps[j].kind = "dict"
    /\ StepKeys \subseteq analysis.steps[j].keys
    /\ Cardinality(CallsOfStep(j)) = 1
    /\ \A e \in CallsOfStep(j) : executed[e].returned

\* Step k failed: it is no dict, or a key that is read is missing, or its
\* get_data_table call raised.
StepFailed(k) ==
    \/ analysis.steps[k].kind # "dict"
    \/ ~(StepKeys \subseteq analysis.steps[k].keys)
    \/ \E e \in CallsOfStep(k) : ~executed[e].returned

\* The chain has halted on a failed step.
ChainHalted == qoutcome.kind = "HTTP500"

\* The rows that the calls of a log changed and committed: a call commits
\* only inside conn.begin(), that is for a statement classified as a write,
\* and only if it returned.
RECURSIVE CommittedBy(_)
CommittedBy(log) ==
    IF log = <<>> THEN 0
    ELSE (IF Head(log).returned /\ Head(log).call.is_write_query
          THEN Head(log).call.effect ELSE 0) + CommittedBy(Tail(log))

\* C25: when the classifier's invoke_model call fails, or its response is
\* not the expected JSON object, the request goes on as a single-statement
\* request and no error reaches the caller.
C25_ClassificationFailureDegradesToSingle ==
    (Classified /\ ClassificationFailed) => (qpc = "single" /\ qoutcome = NoQOutcome)

\* C26: a chain that halts on its first failing step k returns the k-1
\* StepResults of the steps before k, in order, with a failure description
\* and the failed step k, and no step after k was executed.
C26_FirstFailureReturnsCompletedSteps ==
    ChainHalted =>
        LET k == qoutcome.failed_step
        IN /\ qpc = "raised"
           /\ xpc = "idle"
           /\ k \in 1..Len(analysis.steps)
           /\ StepFailed(k)
           /\ qoutcome.error # <<>>
           /\ Len(qoutcome.steps) = k - 1
           /\ \A j \in 1..(k - 1) :
                  /\ StepSucceeded(j)
                  /\ qoutcome.steps[j].query = analysis.steps[j].query
                  /\ qoutcome.steps[j].results.kind \in {"rows", "affected_rows"}
           /\ \A e \in 1..Len(executed) : executed[e].step <= k

\* A chain of three steps has halted on step 2, with the one StepResult of
\* step 1.
C26_Witness ==
    /\ ChainHalted
    /\ Len(analysis.steps) = 3
    /\ qoutcome.failed_step = 2
    /\ Len(qoutcome.steps) = 1
    /\ Len(executed) = 2

\* C27: a request classified as multi whose steps are descriptions, and in
\* which no execution failed, ends with one StepResult per step.
C27_OneStepResultPerDescription ==
    ( /\ qpc \in {"returned", "raised"}
      /\ IsMulti(analysis)
      /\ \A j \in 1..Len(analysis.steps) : analysis.steps[j] = DescriptionStep
      /\ \A e \in 1..Len(executed) : executed[e].returned )
    => /\ qoutcome.kind = "multi"
       /\ Len(qoutcome.steps) = Len(analysis.steps)

\* C29: when the chain has halted on a failed step, the statement of every
\* completed step was executed exactly once, and the database holds what
\* the calls of the chain committed: nothing of it was rolled back.
C29_CompletedStepsKept ==
    ChainHalted =>
        /\ \A j \in 1..Len(qoutcome.steps) : Cardinality(CallsOfStep(j)) = 1
        /\ database.committed = CommittedBy(executed)
        /\ database.pending = 0

\* A chain has halted on step 2 after step 1 committed a changed row.
C29_Witness ==
    /\ ChainHalted
    /\ qoutcome.failed_step = 2
    /\ Len(qoutcome.steps) = 1
    /\ executed[1].call.is_write_query
    /\ executed[1].call.effect = 1
    /\ database.committed = 1

\* C28: the prompt that generate_chained_sql builds for a step holds the
\* schema, every row of the previous step's result and every statement of
\* the earlier steps, in their order.
C28_ContextHoldsAllRowsAndStatements ==
    cpc = "llm" =>
        /\ full_prompt.has_schema
        /\ full_prompt.previous_results = JsonDumpsRows(context.previous_results)
        /\ full_prompt.previous_queries = context.previous_queries

\* ---------------------------------------------- vocabulary of C31 to C35
\* handle_single_query has returned a result (lines 149-223).
RequestSucceeded == rpc = "returned" /\ outcome.kind \in {"ask", "single"}

\* The invoke_model calls that generate_sql can make when it is started at
\* attempt a: one for each of a, a + 1, .. up to 3.
CallBudget(a) == IF a > 3 THEN 0 ELSE 4 - a

\* C31: one handle_single_query request makes at most 6 invoke_model calls
\* for generation: at most 3, 2, 1 and 0 in the outer attempts 1, 2, 3 and 4;
\* the 4th outer attempt makes none and fails, so a result that is returned
\* reports at most 3 attempts.
C31_AtMostSixGenerationCalls ==
    /\ llm_calls <= 6
    /\ gen.start # 0 => gen.calls <= CallBudget(gen.start)
    /\ attempt = 4 => (gen.start = 4 => gen.calls = 0) /\ ~RequestSucceeded
    /\ RequestSucceeded => outcome.attempts \in 1..3

\* A request has made its 6 calls and has failed in its 4th outer attempt,
\* which made none.
C31_Witness ==
    /\ rpc = "raised"
    /\ attempt = 4
    /\ llm_calls = 6
    /\ gen.start = 4
    /\ gen.calls = 0
    /\ gen.status = "exhausted"

\* Every call that handle_single_query awaits returns or raises: a step of
\* the request that is enabled is taken.
SpecGenLive == SpecGen /\ WF_vars(NextGen)

\* C32: if every awaited call returns or raises, handle_single_query makes
\* at most 4 outer attempts and ends by returning a result or by raising an
\* error; it never leaves its loop without either.
C32_RequestTerminates ==
    /\ [](attempt <= max_attempts_outer)
    /\ [](rpc = "loop" => attempt < max_attempts_outer)
    /\ [](rpc = "returned" => outcome.kind \in {"ask", "single"})
    /\ [](rpc = "raised" => outcome.kind = "HTTP500")
    /\ (rpc # "new" ~> (rpc \in {"returned", "raised"}))

\* The request has ended by raising after its 4th outer attempt.
C32_Witness ==
    /\ rpc = "raised"
    /\ attempt = 4
    /\ outcome.kind = "HTTP500"
    /\ outcome.attempts = 4
    /\ Len(outcome.errors) >= 4

\* C33: within one handle_single_query request at most one generated
\* statement is committed, and once a statement has been executed and
\* committed the request generates and executes nothing more.
C33_AtMostOneStatementCommitted ==
    [][/\ commits' <= 1
       /\ commits >= 1 => (llm_calls' = llm_calls /\ commits' = commits)]_vars

\* The test of _parse_response lines 116-122 on the text of a statement.
PassesSingleStatementCheck(q) == HasSemicolon(q) => IsSemicolonInString(q)

\* C34: every statement that get_data_table executed for the request is one
\* that passes the single-statement validation of _parse_response.
C34_ExecutedStatementsValidated ==
    /\ xpc # "idle" => PassesSingleStatementCheck(xcall.given)
    /\ \A e \in 1..Len(executed) : PassesSingleStatementCheck(executed[e].call.given)

\* C35: a request in mode 'ask' never reaches get_data_table, generate_visuals
\* or add_conversation_message, commits nothing, and when it returns it
\* returns the answer of generate_sql that passed _parse_response.
C35_AskExecutesNothing ==
    (rpc # "new" /\ mode = "ask")
    => /\ rpc \notin {"exec", "visuals", "save"}
       /\ visual_calls = 0
       /\ commits = 0
       /\ rpc = "returned"
          => /\ outcome.kind = "ask"
             /\ gen.status = "returned"
             /\ ParseResponse(gen.resps[Len(gen.resps)]) = "ok"

\* A request in mode 'ask' has returned on its second pass, after a failed
\* first one.
C35_Witness ==
    /\ rpc = "returned"
    /\ mode = "ask"
    /\ outcome.kind = "ask"
    /\ attempt = 2
    /\ Len(error_history) >= 1

\* C36: when the classifier has answered, the request goes to
\* handle_multi_step exactly if the answer is an object with query_type
\* 'multi' and more than one step, and every other object (a 'multi' one with
\* zero or one step, a 'single' one, one without query_type) goes to
\* handle_single_query.
C36_RoutedByTypeAndStepCount ==
    [][(qpc = "classify" /\ qpc' # "classify")
       => /\ qpc' = "step"
             <=> /\ analysis'.kind = "object"
                 /\ analysis'.query_type = "multi"
                 /\ Len(analysis'.steps) > 1
          /\ ( /\ analysis'.kind = "object"
               /\ \/ analysis'.query_type # "multi"
                  \/ Len(analysis'.steps) <= 1 )
             => qpc' = "single"]_vars

\* A 'multi' answer with exactly one step has been routed to the
\* single-statement path.
C36_Witness ==
    /\ qpc = "single"
    /\ analysis.kind = "object"
    /\ analysis.query_type = "multi"
    /\ Len(analysis.steps) = 1

\* The pair that the pool key is meant to identify.
SamePair(d1, d2) == d1.name = d2.name /\ d1.database_name = d2.database_name

\* C37: the handle that _get_engine returned to a call was constructed for
\* the connection name and database name of that call's descriptor, so that
\* descriptors that differ in either never share a handle.
C37_HandleOfOwnPair ==
    \A t \in Tasks :
        result[t].kind = "handle" => SamePair(handles[result[t].h].d, frame[t].d)

\* ------------------------------------------------ close_all_connections
\* The iterator of "for engine in self.engines.values()": a dict keeps its
\* entries in insertion order, which is the order of the handles' numbers,
\* and the iterator keeps the size of the dict when the loop began (di_used),
\* how many values it still owes (len) and how far it has come (di_pos).
ValuesAfter(E, pos) == { E[k] : k \in DOMAIN E } \cap { h \in 1..Len(handles) : h > pos }

\* The value the iterator gives next: the earliest entry not yet passed.
NextValue(S) == CHOOSE h \in S : \A g \in S : h <= g

\* dispose() is called on engine h.
DisposeBegins(H, h) == [H EXCEPT ![h].state = IF @ = "live" THEN "disposing" ELSE @]

\* Line 258: self.engines.clear(); engine_creation_times is not touched.
ClearEngines(s) == engines' = [engines EXCEPT ![s] = EmptyDict]

\* close_all_connections up to its first suspension: line 256 and the await
\* of line 257, or line 258 when the map is empty.
CloseAllConnectionsCall(t, s) ==
    LET E == engines[s]
        first == NextValue(ValuesAfter(E, 0))
    IN /\ pc[t] = "idle"
       /\ calls < MaxCalls
       /\ calls' = calls + 1
       /\ IF DOMAIN E = {}
          THEN /\ ClearEngines(s)
               /\ pc' = pc
               /\ frame' = [frame EXCEPT ![t] = [@ EXCEPT !.svc = s, !.disposing = 0,
                                                         !.di_used = 0, !.len = 0, !.di_pos = 0]]
               /\ result' = [result EXCEPT ![t] = [kind |-> "closed", h |-> 0]]
               /\ UNCHANGED <<handles, mutations>>
          ELSE /\ handles' = DisposeBegins(handles, first)
               /\ mutations' = mutations \cup {Mutation("dispose", FALSE)}
               /\ pc' = [pc EXCEPT ![t] = "close"]
               /\ frame' = [frame EXCEPT ![t] =
                               [@ EXCEPT !.svc = s, !.disposing = first,
                                         !.di_used = Cardinality(DOMAIN E),
                                         !.len = Cardinality(DOMAIN E) - 1,
                                         !.di_pos = first]]
               /\ result' = [result EXCEPT ![t] = NoResult]
               /\ UNCHANGED engines
       /\ UNCHANGED <<now, engine_creation_times, engine_locks>>
       /\ UNCHANGED reqVars
       /\ UNCHANGED unitVars

\* dispose() returns to the loop of lines 256-257: the iterator raises
\* RuntimeError when the dict's size changed or when it finds a value after
\* it has given as many as the dict held; it gives the next value, or the
\* loop ends and line 258 clears the map.
CloseAllConnectionsNext(t) ==
    LET f == frame[t]
        s == f.svc
        E == engines[s]
        H == [handles EXCEPT ![f.disposing].state = "disposed"]
        rest == ValuesAfter(E, f.di_pos)
    IN /\ pc[t] = "close"
       /\ IF Cardinality(DOMAIN E) # f.di_used \/ (rest # {} /\ f.len = 0)
          THEN /\ handles' = H
               /\ pc' = [pc EXCEPT ![t] = "idle"]
               /\ result' = [result EXCEPT ![t] = [kind |-> "RuntimeError", h |-> 0]]
               /\ UNCHANGED <<engines, mutations, frame>>
          ELSE IF rest = {}
               THEN /\ handles' = H
                    /\ ClearEngines(s)
                    /\ mutations' = mutations \cup {Mutation("delete", FALSE)}
                    /\ pc' = [pc EXCEPT ![t] = "idle"]
                    /\ result' = [result EXCEPT ![t] = [kind |-> "closed", h |-> 0]]
                    /\ UNCHANGED frame
               ELSE /\ handles' = DisposeBegins(H, NextValue(rest))
                    /\ frame' = [frame EXCEPT ![t] =
                                    [@ EXCEPT !.disposing = NextValue(rest), !.len = @ - 1,
                                              !.di_pos = NextValue(rest)]]
                    /\ UNCHANGED <<engines, mutations, pc, result>>
       /\ UNCHANGED <<now, calls, engine_creation_times, engine_locks>>
       /\ UNCHANGED reqVars
       /\ UNCHANGED unitVars

NextPool ==
    \/ Next
    \/ \E t \in Tasks, site \in Sites : CloseAllConnectionsCall(t, ServiceOf(t, site))
    \/ \E t \in Tasks : CloseAllConnectionsNext(t)

SpecPool == Init /\ [][NextPool]_vars

\* No _get_engine and no close_all_connections call is suspended.
PoolQuiet == \A t \in Tasks : pc[t] = "idle"

\* C38: whenever no pool call is in progress, every handle ever constructed
\* is the entry of its key in its service's engine map or has been disposed
\* of, and the engine map and the creation-time map of every service have the
\* same keys.
C38_NoHandleLeaked ==
    PoolQuiet =>
        /\ \A h \in HandleIds :
               \/ handles[h].state = "disposed"
               \/ /\ handles[h].key \in DOMAIN engines[handles[h].svc]
                  /\ engines[handles[h].svc][handles[h].key] = h
        /\ \A s \in Services : DOMAIN engines[s] = DOMAIN engine_creation_times[s]

\* C39: a get_data_table call that returns for a statement that changed rows
\* has committed the change also when the statement's leading keyword is
\* none of the six write keywords, as with TRUNCATE on PostgreSQL; no change
\* is discarded when the connection closes behind a successful return.
C39_ReturnedModificationCommitted ==
    ( /\ xpc = "returned"
      /\ xcall.effect > 0
      /\ xcall.db_type = "postgresql"
      /\ LeadingKeyword(xcall.given) = Upper(<<"t", "r", "u", "n", "c", "a", "t", "e">>) )
    => /\ database.committed = xcall.before + xcall.effect
       /\ database.pending = 0

\* ------------------------------------------------------ execute_batch_sql
\* The other units do not touch the state of an execute_batch_sql request;
\* of get_data_table's state the batch changes the database only.
notBatchVars == <<poolVars, taskVars, reqVars, chainVars, directVars, rowVars, queryVars,
                  xpc, xcall, xresult>>

\* An exception leaves "async with conn.begin()" (lines 583, 600-609): the
\* transaction is rolled back.
BatchExceptionCommits(db) == Commit(db)
BatchExceptionLeaves(db) == Rollback(db)

\* Lines 571-580: an empty list is refused with HTTP 400; otherwise the
\* connection is looked up and the engine acquired.
ExecuteBatchSqlCall(sql_queries) ==
    /\ bpc = "idle"
    /\ database.committed < MaxCommits
    /\ batch' = Batch(sql_queries, database.committed, 0, <<>>)
    /\ IF sql_queries = <<>>
       THEN /\ bpc' = "raised"
            /\ boutcome' = BOutcome("HTTP400", "No SQL queries provided", 0, 0)
       ELSE /\ bpc' = "connect"
            /\ boutcome' = NoBOutcome
    /\ UNCHANGED database
    /\ UNCHANGED notBatchVars

\* get_connection_by_name, _get_engine, engine.connect() or conn.begin()
\* raises (lines 574-583): the except clause of line 613.
BatchConnectFails ==
    /\ bpc = "connect"
    /\ bpc' = "raised"
    /\ boutcome' = BOutcome("HTTP500", "str(e)", 0, 0)
    /\ UNCHANGED <<batch, database>>
    /\ UNCHANGED notBatchVars

\* Lines 582-586: the transaction is open and the first statement is sent.
BatchBegun ==
    /\ bpc = "connect"
    /\ bpc' = "run"
    /\ UNCHANGED <<batch, boutcome, database>>
    /\ UNCHANGED notBatchVars

\* conn.execute returns for the next statement of the list with rowcount
\* rows changed (lines 586-593); after the last one the return of lines
\* 595-598 reaches the end of conn.begin().
BatchStatementDone(rowcount) ==
    LET i == Len(batch.done) + 1
    IN /\ bpc = "run"
       /\ batch' = [batch EXCEPT !.total_affected = @ + rowcount,
                                 !.done = Append(@, [query |-> batch.sql_queries[i],
                                                     rowcount |-> rowcount])]
       /\ database' = [database EXCEPT !.pending = @ + rowcount]
       /\ bpc' = IF i = Len(batch.sql_queries) THEN "commit" ELSE "run"
       /\ UNCHANGED boutcome
       /\ UNCHANGED notBatchVars

\* conn.execute raises for the next statement: lines 599-609 raise
\* HTTPException(500) out of conn.begin(), and line 611 passes it on.
BatchStatementRaises ==
    /\ bpc = "run"
    /\ database' = BatchExceptionLeaves(database)
    /\ bpc' = "raised"
    /\ boutcome' = BOutcome("HTTP500", "Error executing batch queries", 0,
                            Len(batch.done) + 1)
    /\ UNCHANGED batch
    /\ UNCHANGED notBatchVars

\* The commit at the end of conn.begin() succeeds and the dict of lines
\* 595-598 is returned.
BatchCommitDone ==
    /\ bpc = "commit"
    /\ database' = Commit(database)
    /\ bpc' = "returned"
    /\ boutcome' = BOutcome("200", "Batch execution successful", batch.total_affected, 0)
    /\ UNCHANGED batch
    /\ UNCHANGED notBatchVars

\* The commit raises: the transaction is rolled back and the except clause
\* of line 613 answers.
BatchCommitFails ==
    /\ bpc = "commit"
    /\ database' = Rollback(database)
    /\ bpc' = "raised"
    /\ boutcome' = BOutcome("HTTP500", "str(e)", 0, 0)
    /\ UNCHANGED batch
    /\ UNCHANGED notBatchVars

\* The response is sent and the next request can come.
BatchOver ==
    /\ bpc \in {"returned", "raised"}
    /\ bpc' = "idle"
    /\ batch' = NoBatch
    /\ boutcome' = NoBOutcome
    /\ UNCHANGED database
    /\ UNCHANGED notBatchVars

NextBatch ==
    \/ \E sql_queries \in BatchQueries : ExecuteBatchSqlCall(sql_queries)
    \/ BatchConnectFails
    \/ BatchBegun
    \/ \E rowcount \in {0, 1} : BatchStatementDone(rowcount)
    \/ BatchStatementRaises
    \/ BatchCommitDone
    \/ BatchCommitFails
    \/ BatchOver

SpecBatch == Init /\ [][NextBatch]_vars

\* The rows changed by the statements executed so far.
RECURSIVE SumRowcounts(_)
SumRowcounts(done) ==
    IF done = <<>> THEN 0 ELSE Head(done).rowcount + SumRowcounts(Tail(done))

\* C40: the statements of a batch are executed in the order of the list in
\* one transaction, nothing being committed before the end; a batch that
\* returns has executed all of them and committed all their changes; a batch
\* that raises has left the database as it was, has executed no statement
\* after the one that failed, and answers with an error.
C40_BatchIsAtomic ==
    /\ Len(batch.done) <= Len(batch.sql_queries)
    /\ \A i \in 1..Len(batch.done) : batch.done[i].query = batch.sql_queries[i]
    /\ bpc \in {"connect", "run", "commit"}
       => /\ database.committed = batch.before
          /\ database.pending = SumRowcounts(batch.done)
    /\ bpc = "returned"
       => /\ Len(batch.done) = Len(batch.sql_queries)
          /\ database.committed = batch.before + SumRowcounts(batch.done)
          /\ database.pending = 0
          /\ boutcome.kind = "200"
          /\ boutcome.affected_rows = SumRowcounts(batch.done)
    /\ bpc = "raised"
       => /\ database.committed = batch.before
          /\ database.pending = 0
          /\ boutcome.kind \in {"HTTP400", "HTTP500"}
          /\ boutcome.failed_at # 0
             => /\ Len(batch.done) = boutcome.failed_at - 1
                /\ Len(batch.done) < Len(batch.sql_queries)

\* A batch of three statements failed at its third statement after the
\* first two had changed a row each.
C40_Witness ==
    /\ bpc = "raised"
    /\ Len(batch.sql_queries) = 3
    /\ boutcome.failed_at = 3
    /\ SumRowcounts(batch.done) = 2
    /\ database.committed = batch.before

\* A batch of two statements that changed a row each has been committed.
C40_Committed ==
    /\ bpc = "returned"
    /\ Len(batch.sql_queries) = 2
    /\ database.committed = batch.before + 2

====
